---- MODULE Spec2Model ----
(***************************************************************************)
(* State-machine model of the realtime session engine:                     *)
(*   src/realtime/api.py           RealtimeAPI      (transport)            *)
(*   src/realtime/client.py        RealtimeClient   (session, watchdog,    *)
(*                                                   tool bridge)          *)
(*   src/realtime/conversation.py  RealtimeConversation (store)            *)
(*   src/tools/end_call.py         end_call_handler                        *)
(*                                                                         *)
(* Execution contexts.  The asyncio loop runs one coroutine at a time; a   *)
(* coroutine gives up the loop only at an await that really suspends       *)
(* (ws.close(), ws.send(), websockets.connect(), a tool handler, sleep).   *)
(* One action of the model is the code between two such suspensions.       *)
(* threading.Timer callbacks run on their own thread, so                   *)
(* _handle_silence_timeout is split where the thread can be preempted:     *)
(* after the elapsed-time test and before the flags are written.           *)
(*                                                                         *)
(* Time is in seconds and advances by TickSeconds.  What takes no such     *)
(* time is done before the clock moves on: Tick is disabled while a timer  *)
(* is due or its callback is between test and write, and while a task is   *)
(* ready to run on the loop.  Waiting for the network or for a tool        *)
(* handler can span ticks.                                                 *)
(***************************************************************************)
EXTENDS Integers, Sequences, FiniteSets, TLC

VARIABLES
    now,        \* wall clock, in seconds
    ws,         \* RealtimeAPI.ws: 0 is None, k > 0 the k-th stream opened
    closeCalls, \* history: closeCalls[k] = number of ws.close() calls on stream k
    remote,     \* the streams the remote end has closed
    client,     \* RealtimeClient fields, and the Timer threads it started
    conv,       \* RealtimeConversation fields
    END_CALL,   \* realtime.globals.END_CALL
    watcher,    \* position of the _check_end_call_flag task
    sd,         \* the _handle_silence_disconnect tasks posted by the timer thread
    disc,       \* the caller's disconnect() calls
    conn,       \* the caller's connect() call
    calls,      \* the _on_output_item_done tasks
    greets,     \* the send_initial_conversation_item tasks
    recv,       \* streams whose _receive_messages loop is alive
    sent,       \* frames transmitted with ws.send, in order
    emitted,    \* lifecycle notifications dispatched to the client's observers
    event_handlers, \* RealtimeEventHandler.event_handlers: name -> handlers registered
    waits,      \* the wait_for_next calls and their futures
    hist        \* history of the current session, read by the properties only

vars == <<now, ws, closeCalls, remote, client, conv, END_CALL, watcher, sd, disc, conn,
          calls, greets, recv, sent, emitted, event_handlers, waits, hist>>

----------------------------------------------------------------------------
(* Bounds of the model *)

MaxTime == 60
TickSeconds == 10
MaxTimers == 3
MaxConnects == 2
MaxStarts == 2
MaxDisc == 2
MaxCalls == 2
MaxToolOps == 4
MaxArgs == 2
MaxDeltas == 2
MaxChunks == 2
MaxParts == 1
MaxAudio == 6400
MaxCallerOps == 3
MaxHandlers == 3
MaxDispatches == 3
MaxWaits == 2

(* RealtimeClient(silence_timeout=30), in seconds *)
silence_timeout == 30

(* RealtimeConversation.default_frequency *)
default_frequency == 16000

TimerIds == 1..MaxTimers

(* names events are dispatched under *)
EventNames == {"a", "b"}
StreamIds == 1..MaxConnects

Min(a, b) == IF a < b THEN a ELSE b
Max(a, b) == IF a > b THEN a ELSE b

----------------------------------------------------------------------------
(* threading.Timer objects started by the client.                          *)
(*   free      no such thread                                              *)
(*   armed     waiting for its deadline                                    *)
(*   begun     deadline passed, callback entered, nothing tested yet       *)
(*   running   callback has passed the elapsed-time test, flags not yet    *)
(*             written                                                     *)
(*   finished  cancelled or returned, still referenced by silence_timer    *)

FreeTimer == [st |-> "free", deadline |-> 0]

(* A finished Timer nobody references is garbage *)
Collect(c) ==
    [c EXCEPT !.timers = [i \in TimerIds |->
        IF c.timers[i].st = "finished" /\ c.silence_timer # i
        THEN FreeTimer ELSE c.timers[i]]]

(* Timer.cancel(): stops a waiting timer, has no effect on a callback that
   has already begun *)
TimerCancel(c, i) ==
    IF c.timers[i].st = "armed"
    THEN [c EXCEPT !.timers[i] = [st |-> "finished", deadline |-> 0]]
    ELSE c

FreshTimer(c) == CHOOSE i \in TimerIds :
    /\ c.timers[i].st = "free"
    /\ \A j \in TimerIds : c.timers[j].st = "free" => i <= j

(* RealtimeClient._schedule_silence_timer *)
schedule_silence_timer(c, t) ==
    IF c.silence_detection_active /\ ~c.timeout_triggered
    THEN LET Arm(c0, i) ==
                [c0 EXCEPT !.timers[i] = [st |-> "armed", deadline |-> t + silence_timeout],
                           !.silence_timer = i]
             Start(c0) == Arm(c0, FreshTimer(c0))
         IN Start(Collect([c EXCEPT !.silence_timer = 0]))
    ELSE c

(* RealtimeClient._start_silence_detection *)
start_silence_detection(c, t) ==
    IF c.silence_detection_active
    THEN c
    ELSE schedule_silence_timer(
            [c EXCEPT !.loop = TRUE,
                      !.silence_detection_active = TRUE,
                      !.timeout_triggered = FALSE,
                      !.last_activity_time = t], t)

(* RealtimeClient._stop_silence_detection *)
stop_silence_detection(c) ==
    LET c1 == [c EXCEPT !.silence_detection_active = FALSE]
    IN IF c1.silence_timer # 0
       THEN Collect([TimerCancel(c1, c1.silence_timer) EXCEPT !.silence_timer = 0])
       ELSE c1

(* a reset that cancels the timer and arms none: a fault RemainderArmed
   excludes *)
reset_silence_timer_unarmed(c, t) ==
    IF ~c.silence_detection_active \/ c.timeout_triggered
    THEN c
    ELSE IF c.silence_timer # 0
    THEN [TimerCancel(c, c.silence_timer) EXCEPT !.last_activity_time = t]
    ELSE [c EXCEPT !.last_activity_time = t]

(* RealtimeClient._reset_silence_timer *)
reset_silence_timer(c, t) ==
    IF ~c.silence_detection_active \/ c.timeout_triggered
    THEN c
    ELSE LET c1 == [c EXCEPT !.last_activity_time = t]
             c2 == IF c1.silence_timer # 0 THEN TimerCancel(c1, c1.silence_timer) ELSE c1
         IN schedule_silence_timer(c2, t)

----------------------------------------------------------------------------
(* RealtimeConversation.                                                   *)
(* item_lookup, response_lookup and the queues are Python dicts: functions *)
(* whose domain is the set of keys present.  items and responses hold the  *)
(* very objects of the lookups, so they are kept as the lists of their     *)
(* ids.  A byte buffer (bytearray) is kept as the range [from, to) of the  *)
(* positions of its bytes in the stream of appended input audio; a decoded *)
(* audio delta (bytes) is kept as its length.                              *)

NoItem == [none |-> TRUE]
IsItem(r) == "none" \notin DOMAIN r

Put(d, k, v) == [x \in (DOMAIN d) \cup {k} |-> IF x = k THEN v ELSE d[x]]
Del(d, k) == [x \in (DOMAIN d) \ {k} |-> d[x]]
EmptyDict == [x \in {} |-> 0]

RECURSIVE SumSeq(_)
SumSeq(q) == IF q = <<>> THEN 0 ELSE Head(q) + SumSeq(Tail(q))

BytesLen(b) == b.to - b.from
EmptyBytes == [kind |-> "bytes", from |-> 0, to |-> 0]
EmptyList == [kind |-> "list", chunks |-> <<>>]

(* number of bytes held by a formatted.audio value *)
AudioBytes(a) == IF a.kind = "list" THEN SumSeq(a.chunks) ELSE BytesLen(a)

(* Python a[lo:hi] for 0 <= lo, hi: indices are clamped to the length *)
SliceBytes(b, lo, hi) ==
    LET n == BytesLen(b)
        l == Min(lo, n)
        h == Max(l, Min(hi, n))
    IN [kind |-> "bytes", from |-> b.from + l, to |-> b.from + h]

(* Python a[:hi] on formatted.audio: on a list it counts list elements *)
SliceAudio(a, hi) ==
    IF a.kind = "list"
    THEN [kind |-> "list", chunks |-> SubSeq(a.chunks, 1, Min(hi, Len(a.chunks)))]
    ELSE SliceBytes(a, 0, hi)

(* Python truthiness of a queued_input_audio / input_audio_buffer value *)
Truthy(b) == IsItem(b) /\ BytesLen(b) > 0

(* utils.base64_to_array_buffer(delta).tobytes(): a base64 text of g groups
   of four characters, the last one holding p padding characters, decodes
   to 3g - p bytes *)
base64_to_array_buffer(d) == 3 * d.groups - d.pad

(* RealtimeConversation.clear *)
clear ==
    [item_lookup |-> EmptyDict, items |-> <<>>,
     response_lookup |-> EmptyDict, responses |-> <<>>,
     queued_speech_items |-> EmptyDict,
     queued_transcript_items |-> EmptyDict,
     queued_input_audio |-> NoItem]

(* RealtimeConversation.queue_input_audio *)
queue_input_audio(cv, audio) == [cv EXCEPT !.queued_input_audio = audio]

(* what a processor hands back: the store, the item and whether a delta
   comes with it (the pair it returns), whether it raised *)
Ret(cv, it) == [cv |-> cv, item |-> it, delta |-> FALSE, raised |-> FALSE]
RetDelta(cv, it) == [cv |-> cv, item |-> it, delta |-> TRUE, raised |-> FALSE]
Raise(cv) == [cv |-> cv, item |-> NoItem, delta |-> FALSE, raised |-> TRUE]

RECURSIVE ContentText(_)
ContentText(parts) ==
    IF parts = <<>> THEN ""
    ELSE (IF Head(parts).type \in {"text", "input_text"} THEN Head(parts).text ELSE "")
         \o ContentText(Tail(parts))

RemoveId(q, id) == SelectSeq(q, LAMBDA x : x # id)

(* _process_item_created works on st: the store st.cv, the new item object
   st.it, whether that object is the one registered (st.isnew), whether an
   exception is pending (st.raised) *)

(* item.created registering the item whether its id is new or not: a fault
   ListMatchesIndex excludes *)
created_register_always(cv, ev) ==
    LET it == Put(ev.item, "formatted", [audio |-> EmptyList, text |-> "", transcript |-> ""])
    IN [cv |-> [cv EXCEPT !.item_lookup = Put(cv.item_lookup, ev.item.id, it),
                          !.items = Append(cv.items, ev.item.id)],
        it |-> it, isnew |-> TRUE, raised |-> FALSE]

(* new_item = item.copy(); register if the id is new; fresh formatted *)
created_register(cv, ev) ==
    LET Reg(it, isnew) ==
            [cv |-> IF isnew
                    THEN [cv EXCEPT !.item_lookup = Put(cv.item_lookup, it.id, it),
                                    !.items = Append(cv.items, it.id)]
                    ELSE cv,
             it |-> it, isnew |-> isnew, raised |-> FALSE]
    IN Reg(Put(ev.item, "formatted", [audio |-> EmptyList, text |-> "", transcript |-> ""]),
           ev.item.id \notin DOMAIN cv.item_lookup)

(* the queued speech segment: its audio, then the queue entry is deleted;
   a segment without audio is a KeyError *)
created_speech(st) ==
    IF st.it.id \notin DOMAIN st.cv.queued_speech_items
    THEN st
    ELSE IF "audio" \notin DOMAIN st.cv.queued_speech_items[st.it.id]
    THEN [st EXCEPT !.raised = TRUE]
    ELSE [st EXCEPT !.it.formatted.audio = st.cv.queued_speech_items[st.it.id].audio,
                    !.cv.queued_speech_items = Del(@, st.it.id)]

(* the text and input_text content parts *)
created_text(st) ==
    IF st.raised \/ "content" \notin DOMAIN st.it
    THEN st
    ELSE [st EXCEPT !.it.formatted.text = ContentText(st.it.content)]

(* the queued transcript, then the queue entry is deleted *)
created_transcript(st) ==
    IF st.raised \/ st.it.id \notin DOMAIN st.cv.queued_transcript_items
    THEN st
    ELSE [st EXCEPT !.it.formatted.transcript =
                        st.cv.queued_transcript_items[st.it.id].transcript,
                    !.cv.queued_transcript_items = Del(@, st.it.id)]

(* the pending input audio merged and left pending, the other kinds
   untouched: a fault CreatedStatusByKind excludes *)
created_status_keep(st) ==
    IF ~st.raised /\ st.it.type = "message" /\ st.it.role = "user"
    THEN IF Truthy(st.cv.queued_input_audio)
         THEN [st EXCEPT !.it.status = "completed",
                         !.it.formatted.audio = st.cv.queued_input_audio]
         ELSE [st EXCEPT !.it.status = "completed"]
    ELSE st

(* status, and tool or output, by kind of item *)
created_status(st) ==
    IF st.raised THEN st
    ELSE IF st.it.type = "message"
    THEN IF st.it.role = "user"
         THEN IF Truthy(st.cv.queued_input_audio)
              THEN [st EXCEPT !.it.status = "completed",
                              !.it.formatted.audio = st.cv.queued_input_audio,
                              !.cv.queued_input_audio = NoItem]
              ELSE [st EXCEPT !.it.status = "completed"]
         ELSE [st EXCEPT !.it.status = "in_progress"]
    ELSE IF st.it.type = "function_call"
    THEN [st EXCEPT !.it.status = "in_progress",
              !.it.formatted = Put(st.it.formatted, "tool",
                    [type |-> "function", name |-> st.it.name,
                     call_id |-> st.it.call_id, arguments |-> ""])]
    ELSE IF st.it.type = "function_call_output"
    THEN [st EXCEPT !.it.status = "completed",
              !.it.formatted = Put(st.it.formatted, "output", st.it.output)]
    ELSE st

(* the registered object is the one that was mutated *)
created_result(st) ==
    [cv |-> IF st.isnew THEN [st.cv EXCEPT !.item_lookup[st.it.id] = st.it] ELSE st.cv,
     item |-> IF st.raised THEN NoItem ELSE st.it,
     delta |-> FALSE,
     raised |-> st.raised]

(* RealtimeConversation._process_item_created *)
process_item_created(cv, ev) ==
    created_result(created_status(created_transcript(created_text(created_speech(
        created_register(cv, ev))))))

(* the index without the division by 1000: a fault SpeechSegment excludes *)
ms_to_index_undivided(ms) == ms * default_frequency

(* audio_end_ms * default_frequency // 1000 *)
ms_to_index(ms) == (ms * default_frequency) \div 1000

(* RealtimeConversation._process_item_truncated *)
process_item_truncated(cv, ev) ==
    IF ev.item_id \notin DOMAIN cv.item_lookup
    THEN Raise(cv)
    ELSE LET it == cv.item_lookup[ev.item_id]
             end_index == ms_to_index(ev.audio_end_ms)
             it1 == [it EXCEPT !.formatted.transcript = "",
                               !.formatted.audio = SliceAudio(it.formatted.audio, end_index)]
         IN Ret([cv EXCEPT !.item_lookup[ev.item_id] = it1], it1)

(* _process_item_deleted passing over an item that is not there: a fault
   InapplicableRaises excludes *)
process_item_deleted_lenient(cv, ev) ==
    IF ev.item_id \notin DOMAIN cv.item_lookup
    THEN Ret(cv, NoItem)
    ELSE Ret([cv EXCEPT !.item_lookup = Del(cv.item_lookup, ev.item_id),
                        !.items = RemoveId(cv.items, ev.item_id)],
             cv.item_lookup[ev.item_id])

(* RealtimeConversation._process_item_deleted *)
process_item_deleted(cv, ev) ==
    IF ev.item_id \notin DOMAIN cv.item_lookup
    THEN Raise(cv)
    ELSE Ret([cv EXCEPT !.item_lookup = Del(cv.item_lookup, ev.item_id),
                        !.items = RemoveId(cv.items, ev.item_id)],
             cv.item_lookup[ev.item_id])

(* item["content"][content_index] exists *)
HasPart(it, ci) == "content" \in DOMAIN it /\ ci + 1 \in 1..Len(it.content)
(* ... and has the key *)
HasKey(it, ci, k) == HasPart(it, ci) /\ k \in DOMAIN it.content[ci + 1]

(* the transcript queued and merged as it came, without the placeholder
   for an empty one: a fault TranscriptEitherOrder excludes *)
process_input_audio_transcription_completed_raw(cv, ev) ==
    IF ev.item_id \notin DOMAIN cv.item_lookup
    THEN Ret([cv EXCEPT !.queued_transcript_items =
                 Put(cv.queued_transcript_items, ev.item_id,
                     [transcript |-> ev.transcript])], NoItem)
    ELSE IF ~HasPart(cv.item_lookup[ev.item_id], ev.content_index)
    THEN Raise(cv)
    ELSE RetDelta([cv EXCEPT !.item_lookup[ev.item_id].formatted.transcript =
                                 ev.transcript],
                  cv.item_lookup[ev.item_id])

(* RealtimeConversation._process_input_audio_transcription_completed *)
process_input_audio_transcription_completed(cv, ev) ==
    LET formatted_transcript == IF ev.transcript = "" THEN " " ELSE ev.transcript
    IN IF ev.item_id \notin DOMAIN cv.item_lookup
       THEN Ret([cv EXCEPT !.queued_transcript_items =
                    Put(cv.queued_transcript_items, ev.item_id,
                        [transcript |-> formatted_transcript])], NoItem)
       ELSE LET it == cv.item_lookup[ev.item_id]
            IN IF ~HasPart(it, ev.content_index)
               THEN Raise(cv)
               ELSE LET it1 == [it EXCEPT
                            !.content[ev.content_index + 1] =
                                Put(it.content[ev.content_index + 1], "transcript",
                                    ev.transcript),
                            !.formatted.transcript = formatted_transcript]
                    IN RetDelta([cv EXCEPT !.item_lookup[ev.item_id] = it1], it1)

(* RealtimeConversation._process_speech_started *)
process_speech_started(cv, ev) ==
    Ret([cv EXCEPT !.queued_speech_items =
            Put(cv.queued_speech_items, ev.item_id,
                [audio_start_ms |-> ev.audio_start_ms])], NoItem)

(* RealtimeConversation._process_speech_stopped *)
process_speech_stopped(cv, ev, input_audio_buffer) ==
    IF ev.item_id \notin DOMAIN cv.queued_speech_items
    THEN Raise(cv)
    ELSE LET speech == Put(cv.queued_speech_items[ev.item_id], "audio_end_ms",
                           ev.audio_end_ms)
             start_index == ms_to_index(speech.audio_start_ms)
             end_index == ms_to_index(speech.audio_end_ms)
             speech1 == IF Truthy(input_audio_buffer)
                        THEN Put(speech, "audio",
                                 SliceBytes(input_audio_buffer, start_index, end_index))
                        ELSE speech
         IN Ret([cv EXCEPT !.queued_speech_items[ev.item_id] = speech1], NoItem)

(* RealtimeConversation._process_response_created *)
process_response_created(cv, ev) ==
    IF ev.response.id \notin DOMAIN cv.response_lookup
    THEN Ret([cv EXCEPT !.response_lookup = Put(cv.response_lookup, ev.response.id,
                                                 ev.response),
                        !.responses = Append(cv.responses, ev.response.id)], NoItem)
    ELSE Ret(cv, NoItem)

(* RealtimeConversation._process_output_item_added *)
process_output_item_added(cv, ev) ==
    IF ev.response_id \notin DOMAIN cv.response_lookup
    THEN Raise(cv)
    ELSE Ret([cv EXCEPT !.response_lookup[ev.response_id].output =
                            Append(@, ev.item.id)], NoItem)

(* RealtimeConversation._process_output_item_done *)
process_output_item_done(cv, ev) ==
    IF ev.item.id \notin DOMAIN cv.item_lookup
    THEN Raise(cv)
    ELSE LET it1 == [cv.item_lookup[ev.item.id] EXCEPT !.status = ev.item.status]
         IN Ret([cv EXCEPT !.item_lookup[ev.item.id] = it1], it1)

(* RealtimeConversation._process_content_part_added *)
process_content_part_added(cv, ev) ==
    IF ev.item_id \notin DOMAIN cv.item_lookup
       \/ "content" \notin DOMAIN cv.item_lookup[ev.item_id]
    THEN Raise(cv)
    ELSE LET it1 == [cv.item_lookup[ev.item_id] EXCEPT !.content = Append(@, ev.part)]
         IN Ret([cv EXCEPT !.item_lookup[ev.item_id] = it1], it1)

(* RealtimeConversation._process_audio_transcript_delta *)
process_audio_transcript_delta(cv, ev) ==
    IF ev.item_id \notin DOMAIN cv.item_lookup
       \/ ~HasKey(cv.item_lookup[ev.item_id], ev.content_index, "transcript")
    THEN Raise(cv)
    ELSE LET it1 == [cv.item_lookup[ev.item_id] EXCEPT
                        !.content[ev.content_index + 1].transcript = @ \o ev.delta,
                        !.formatted.transcript = @ \o ev.delta]
         IN RetDelta([cv EXCEPT !.item_lookup[ev.item_id] = it1], it1)

(* _process_audio_delta raising for an item that is not there, as the other
   delta processors do: a fault AudioDeltaTolerated excludes *)
process_audio_delta_strict(cv, ev) ==
    IF ev.item_id \notin DOMAIN cv.item_lookup
    THEN Raise(cv)
    ELSE RetDelta([cv EXCEPT !.item_lookup[ev.item_id].formatted.audio.chunks =
                                 Append(@, base64_to_array_buffer(ev.delta))],
                  cv.item_lookup[ev.item_id])

(* RealtimeConversation._process_audio_delta *)
process_audio_delta(cv, ev) ==
    IF ev.item_id \notin DOMAIN cv.item_lookup
    THEN Ret(cv, NoItem)
    ELSE LET it == cv.item_lookup[ev.item_id]
             append_values == base64_to_array_buffer(ev.delta)
         IN IF it.formatted.audio.kind # "list"
            THEN \* bytearray += [bytes] is a TypeError
                 Raise(cv)
            ELSE LET it1 == [it EXCEPT !.formatted.audio.chunks = Append(@, append_values)]
                 IN RetDelta([cv EXCEPT !.item_lookup[ev.item_id] = it1], it1)

(* _process_text_delta putting the delta in front: a fault
   ConcatenationOfDeltas excludes *)
process_text_delta_prepend(cv, ev) ==
    IF ev.item_id \notin DOMAIN cv.item_lookup
       \/ ~HasKey(cv.item_lookup[ev.item_id], ev.content_index, "text")
    THEN Raise(cv)
    ELSE LET it1 == [cv.item_lookup[ev.item_id] EXCEPT
                        !.content[ev.content_index + 1].text = ev.delta \o @,
                        !.formatted.text = ev.delta \o @]
         IN RetDelta([cv EXCEPT !.item_lookup[ev.item_id] = it1], it1)

(* RealtimeConversation._process_text_delta *)
process_text_delta(cv, ev) ==
    IF ev.item_id \notin DOMAIN cv.item_lookup
       \/ ~HasKey(cv.item_lookup[ev.item_id], ev.content_index, "text")
    THEN Raise(cv)
    ELSE LET it1 == [cv.item_lookup[ev.item_id] EXCEPT
                        !.content[ev.content_index + 1].text = @ \o ev.delta,
                        !.formatted.text = @ \o ev.delta]
         IN RetDelta([cv EXCEPT !.item_lookup[ev.item_id] = it1], it1)

(* RealtimeConversation._process_function_call_arguments_delta *)
process_function_call_arguments_delta(cv, ev) ==
    IF ev.item_id \notin DOMAIN cv.item_lookup
       \/ "arguments" \notin DOMAIN cv.item_lookup[ev.item_id]
       \/ "tool" \notin DOMAIN cv.item_lookup[ev.item_id].formatted
    THEN Raise(cv)
    ELSE LET it1 == [cv.item_lookup[ev.item_id] EXCEPT
                        !.arguments = @ \o ev.delta,
                        !.formatted.tool.arguments = @ \o ev.delta]
         IN RetDelta([cv EXCEPT !.item_lookup[ev.item_id] = it1], it1)

EventProcessors ==
    {"conversation.item.created", "conversation.item.truncated",
     "conversation.item.deleted",
     "conversation.item.input_audio_transcription.completed",
     "input_audio_buffer.speech_started", "input_audio_buffer.speech_stopped",
     "response.created", "response.output_item.added", "response.output_item.done",
     "response.content_part.added", "response.audio_transcript.delta",
     "response.audio.delta", "response.text.delta",
     "response.function_call_arguments.delta"}

(* RealtimeConversation.process_event; buf is the extra argument that
   _on_speech_stopped passes *)
process_event(cv, ev, buf) ==
    CASE ev.type = "conversation.item.created" -> process_item_created(cv, ev)
      [] ev.type = "conversation.item.truncated" -> process_item_truncated(cv, ev)
      [] ev.type = "conversation.item.deleted" -> process_item_deleted(cv, ev)
      [] ev.type = "conversation.item.input_audio_transcription.completed" ->
            process_input_audio_transcription_completed(cv, ev)
      [] ev.type = "input_audio_buffer.speech_started" -> process_speech_started(cv, ev)
      [] ev.type = "input_audio_buffer.speech_stopped" ->
            process_speech_stopped(cv, ev, buf)
      [] ev.type = "response.created" -> process_response_created(cv, ev)
      [] ev.type = "response.output_item.added" -> process_output_item_added(cv, ev)
      [] ev.type = "response.output_item.done" -> process_output_item_done(cv, ev)
      [] ev.type = "response.content_part.added" -> process_content_part_added(cv, ev)
      [] ev.type = "response.audio_transcript.delta" ->
            process_audio_transcript_delta(cv, ev)
      [] ev.type = "response.audio.delta" -> process_audio_delta(cv, ev)
      [] ev.type = "response.text.delta" -> process_text_delta(cv, ev)
      [] ev.type = "response.function_call_arguments.delta" ->
            process_function_call_arguments_delta(cv, ev)
      [] OTHER -> Raise(cv)

----------------------------------------------------------------------------------------------------------------------------------------------
(* RealtimeAPI and the handlers RealtimeClient registers on it.            *)
(* A world is the part of the state a stretch of code on the loop can      *)
(* touch: w.ws and w.closes the transport, w.c the client, w.cv the store, *)
(* w.out the frames sent, w.em the notifications, w.watcher, w.greets and  *)
(* w.calls the tasks, w.h the history; w.ok tells that no exception is     *)
(* pending, w.item is the item the last _process_event returned, w.by the  *)
(* task that is running (history).                                         *)
(* Of the frames sent, those of the types in hist.log are recorded; what   *)
(* the events received did is recorded only where hist.trace is set: the   *)
(* specifications whose properties do not read them leave them unset.      *)

World == [ws |-> ws, closes |-> closeCalls, remote |-> remote, c |-> client,
          cv |-> conv, out |-> sent, em |-> emitted, h |-> hist, watcher |-> watcher, greets |-> greets,
          calls |-> calls, ok |-> TRUE, item |-> NoItem, by |-> 0]

Commit(w) ==
    /\ ws' = w.ws
    /\ closeCalls' = w.closes
    /\ client' = w.c
    /\ conv' = w.cv
    /\ sent' = w.out
    /\ emitted' = w.em
    /\ hist' = w.h
    /\ watcher' = w.watcher
    /\ greets' = w.greets
    /\ calls' = w.calls

(* RealtimeEventHandler.dispatch on the client, to the caller's observers *)
Notify(w, name) == [w EXCEPT !.em[name] = @ + 1]

(* RealtimeClient._reset_silence_timer, in a world *)
Reset(w, t) == [w EXCEPT !.c = reset_silence_timer(w.c, t)]

(* RealtimeClient._log_event, registered for client.* and server.* *)
log_event(w, t) == Reset(w, t)

(* RealtimeAPI._generate_id: int(utcnow().timestamp() * 1000), the clock
   reading in whole milliseconds (the prefix is the same for all) *)
generate_id(t) == t * 1000

(* RealtimeAPI.is_connected *)
is_connected(w) == w.ws # 0

(* the stream behind self.ws is open: nobody has called close() on it and
   the remote end has not closed it *)
IsOpen(w) == w.ws # 0 /\ w.closes[w.ws] = 0 /\ w.ws \notin w.remote

(* RealtimeEventHandler.dispatch on the transport, and the transmission:
   what send does with a frame of a recorded type, in order *)
Dispatched(w, name, event) ==
    IF event.type \in w.h.log
    THEN [w EXCEPT !.h.disp = Append(@, [name |-> name, event |-> event])]
    ELSE w

(* await self.ws.send(json.dumps(event)): ConnectionClosed on a stream that
   is closed or being closed *)
ws_send(w, event) ==
    IF ~IsOpen(w) THEN [w EXCEPT !.ok = FALSE]
    ELSE IF event.type \in w.h.log
    THEN Dispatched([w EXCEPT !.out = Append(w.out, event)], "ws.send", event)
    ELSE w

(* event = {"event_id": ..., "type": event_name, **data}; by is the task
   that sends (history) *)
Stamped(w, frame, t) ==
    [x \in (DOMAIN frame) \cup {"event_id", "by"} |->
        IF x = "event_id" THEN generate_id(t)
        ELSE IF x = "by" THEN w.by ELSE frame[x]]

(* RealtimeAPI.send without the local dispatch: a fault SentWasDispatched
   excludes *)
send_event_undispatched(w, event, t) == ws_send(log_event(w, t), event)

(* RealtimeAPI.send once connected: dispatch client.<type>, which has no
   handlers, and client.*, which has _log_event; then ws.send *)
send_event(w, event, t) ==
    ws_send(log_event(Dispatched(Dispatched(w, "client." \o event.type, event),
                                 "client.*", event), t),
            event)

(* RealtimeAPI.send: raises when not connected *)
send(w, frame, t) ==
    IF ~w.ok THEN w
    ELSE IF ~is_connected(w)
    THEN [w EXCEPT !.ok = FALSE]
    ELSE send_event(w, Stamped(w, frame, t), t)

(* create_response between the commit and the response request:
   conversation.queue_input_audio(buffer); input_audio_buffer = bytearray() *)
QueueInputAudio(w) ==
    IF ~w.ok THEN w
    ELSE [w EXCEPT !.cv = queue_input_audio(w.cv, w.c.input_audio_buffer),
                   !.c.input_audio_buffer =
                        [kind |-> "bytes", from |-> w.c.input_audio_buffer.to,
                         to |-> w.c.input_audio_buffer.to]]

(* RealtimeClient.get_turn_detection_type:
   session_config.get("turn_detection", {}).get("type").  turn_detection is
   "server_vad" for {"type": "server_vad"}, "none" for a dict without a
   type, "null" for None, on which .get is an AttributeError *)
get_turn_detection_type_raises(c) == c.turn_detection = "null"
get_turn_detection_type(c) == IF c.turn_detection = "none" THEN "None" ELSE c.turn_detection

(* RealtimeClient.create_response, after its _reset_silence_timer *)
create_response_body(w, t) ==
    IF get_turn_detection_type_raises(w.c)
    THEN [w EXCEPT !.ok = FALSE]
    ELSE send(IF get_turn_detection_type(w.c) = "None"
                 /\ BytesLen(w.c.input_audio_buffer) > 0
              THEN QueueInputAudio(send(w, [type |-> "input_audio_buffer.commit"], t))
              ELSE w,
              [type |-> "response.create"], t)

(* RealtimeClient.create_response *)
create_response(w, t) == create_response_body(Reset(w, t), t)

(* RealtimeClient.update_session(turn_detection=td), up to the send *)
update_session_config(w, td) == [w EXCEPT !.c.turn_detection = td]

(* RealtimeClient.update_session: the registered tools, each tagged with
   type function, go out in a session.update when connected *)
update_session(w, t) ==
    IF is_connected(w) /\ w.ok
    THEN send(w, [type |-> "session.update",
                  tools |-> {[name |-> n, type |-> "function"] : n \in DOMAIN w.c.tools}], t)
    ELSE w

(* RealtimeClient.append_input_audio with n > 0 bytes *)
append_input_audio_sent(w, n) ==
    IF w.ok THEN [w EXCEPT !.c.input_audio_buffer.to = @ + n] ELSE w

append_input_audio(w, n, t) ==
    append_input_audio_sent(
        send(Reset(w, t), [type |-> "input_audio_buffer.append", audio |-> n], t), n)

(* the store, the returned item and the exception of a processor, put
   into the world *)
Processed(w, r) == [w EXCEPT !.cv = r.cv, !.item = r.item, !.ok = ~r.raised]

(* RealtimeClient._process_event *)
client_process_event(w, ev, buf, t) ==
    Processed(Reset(w, t), process_event(w.cv, ev, buf))

(* a handler's closing _reset_silence_timer, not reached on an exception *)
ResetIfOk(w, t) == IF w.ok THEN Reset(w, t) ELSE w

(* RealtimeClient._on_speech_started *)
on_speech_started(w, ev, t) == ResetIfOk(client_process_event(w, ev, NoItem, t), t)

(* RealtimeClient._on_speech_stopped *)
on_speech_stopped(w, ev, t) ==
    ResetIfOk(client_process_event(w, ev, w.c.input_audio_buffer, t), t)

(* RealtimeClient._on_item_created *)
on_item_created(w, ev, t) == ResetIfOk(client_process_event(w, ev, NoItem, t), t)

(* _on_session_created after _start_silence_detection: with a loop, the
   _check_end_call_flag task unless the handle is set, and the
   send_initial_conversation_item task *)
session_tasks(w) ==
    IF ~w.c.loop THEN w
    ELSE IF w.c.end_call_check_task
    THEN [w EXCEPT !.greets = Append(@, "new")]
    ELSE [w EXCEPT !.greets = Append(@, "new"),
                   !.c.end_call_check_task = TRUE,
                   !.watcher = [pc |-> "polling", k |-> 0]]

(* RealtimeClient._on_session_created *)
on_session_created(w, t) ==
    session_tasks([w EXCEPT
        !.c = start_silence_detection([w.c EXCEPT !.session_created = TRUE], t),
        !.h.starts = @ + 1])

NewCall(ev) ==
    [pc |-> "new", ev |-> ev, handler |-> "", call_id |-> "", outcome |-> "", k |-> 0]

(* dispatch of the asynchronous handler _on_output_item_done:
   asyncio.create_task *)
on_output_item_done_task(w, ev) == [w EXCEPT !.calls = Append(@, NewCall(ev))]

(* the handler RealtimeClient._add_api_event_handlers registers for the type *)
Handle(w, ev, t) ==
    CASE ev.type = "session.created" -> on_session_created(w, t)
      [] ev.type = "input_audio_buffer.speech_started" -> on_speech_started(w, ev, t)
      [] ev.type = "input_audio_buffer.speech_stopped" -> on_speech_stopped(w, ev, t)
      [] ev.type = "conversation.item.created" -> on_item_created(w, ev, t)
      [] ev.type = "response.output_item.done" -> on_output_item_done_task(w, ev)
      [] ev.type \in EventProcessors -> client_process_event(w, ev, NoItem, t)
      [] OTHER -> w

(* the deltas addressed to each item since it was registered, in order *)
NoteDeltas(d, ev) ==
    CASE ev.type = "conversation.item.created" ->
            IF ev.item.id \in DOMAIN d THEN d
            ELSE Put(d, ev.item.id, [text |-> "", transcript |-> ""])
      [] ev.type = "conversation.item.deleted" -> Del(d, ev.item_id)
      [] ev.type = "response.text.delta" -> [d EXCEPT ![ev.item_id].text = @ \o ev.delta]
      [] ev.type = "response.audio_transcript.delta" ->
            [d EXCEPT ![ev.item_id].transcript = @ \o ev.delta]
      [] OTHER -> d

(* the events that set an item's formatted transcript otherwise *)
Disturbing == {"conversation.item.truncated",
               "conversation.item.input_audio_transcription.completed"}

(* a truncation handled: the item, the audio_end_ms, and the bytes of
   audio the item held before *)
NoteTruncated(ev, cv0) ==
    IF ev.type = "conversation.item.truncated"
    THEN [item_id |-> ev.item_id, audio_end_ms |-> ev.audio_end_ms,
          held |-> AudioBytes(cv0.item_lookup[ev.item_id].formatted.audio)]
    ELSE NoItem

(* what an event handled without an exception did joins the history; cv0
   is the store it found *)
Traced(w, ev, cv0) ==
    IF w.ok /\ w.h.trace
    THEN [w EXCEPT !.h.deltas = NoteDeltas(@, ev),
                   !.h.disturbed = IF ev.type \in Disturbing THEN @ \cup {ev.item_id}
                                   ELSE @,
                   !.h.trunc = NoteTruncated(ev, cv0)]
    ELSE w

(* a message handled after the watchdog fired *)
Late(w) == IF w.c.timeout_triggered THEN [w EXCEPT !.h.late = TRUE] ELSE w

(* one round of RealtimeAPI._receive_messages: the handlers of
   server.<type>, then those of server.* unless an exception ended the loop *)
receive_message(w, ev, t) == Traced(ResetIfOk(Handle(Late(w), ev, t), t), ev, w.cv)

Received(k, w) ==
    /\ Commit(w)
    /\ recv' = IF w.ok THEN recv ELSE recv \ {k}

ReceiveMessage(k, ev) ==
    /\ k \in recv
    /\ Received(k, receive_message(World, ev, now))
    /\ UNCHANGED <<event_handlers, waits, remote, now, END_CALL, sd, disc, conn>>

(* the caller's append_input_audio(array_buffer) of n bytes; an exception
   goes to the caller *)
AppendInputAudio(n) ==
    /\ BytesLen(client.input_audio_buffer) + n <= MaxAudio
    /\ Commit([append_input_audio(World, n, now) EXCEPT !.ok = TRUE])
    /\ UNCHANGED <<event_handlers, waits, remote, now, END_CALL, sd, disc, conn, recv>>

----------------------------------------------------------------------------
(* Termination paths *)

(* _stop_silence_detection, counted when it turns an active watchdog off *)
Stop(w) == [w EXCEPT !.c = stop_silence_detection(w.c),
                     !.h.stops = IF w.c.silence_detection_active THEN @ + 1 ELSE @]

(* conversation.clear(), counted when there is something to clear *)
Clear(w) == [w EXCEPT !.cv = clear,
                      !.h.clears = IF w.cv # clear THEN @ + 1 ELSE @]

(* self.session_created = False; self.conversation.clear() *)
EndSession(w) == Clear([w EXCEPT !.c.session_created = FALSE])

(* if self.end_call_check_task: cancel it and drop the handle *)
cancel_end_call_check(w) ==
    IF w.c.end_call_check_task
    THEN [w EXCEPT !.c.end_call_check_task = FALSE,
                   !.watcher.pc = IF @ \in {"polling", "closing"} THEN "cancelled" ELSE @]
    ELSE w

(* the position of a coroutine that has entered RealtimeAPI.disconnect:
   suspended in ws.close() on the stream, or through when ws is None *)
CloseBegin(w) ==
    IF w.ws # 0 THEN [pc |-> "closing", k |-> w.ws] ELSE [pc |-> "done", k |-> 0]

(* RealtimeAPI.disconnect up to the suspension: ws.close() is called *)
api_disconnect_begin(w) ==
    IF w.ws # 0 THEN [w EXCEPT !.closes[w.ws] = @ + 1] ELSE w

(* RealtimeAPI.disconnect from the return of ws.close(): self.ws = None *)
api_disconnect_finish(w) == [w EXCEPT !.ws = 0]

(* RealtimeClient.disconnect up to the suspension in ws.close() *)
client_disconnect(w) ==
    api_disconnect_begin(EndSession(cancel_end_call_check(Stop(w))))

(* the caller's d-th disconnect(): up to ws.close() *)
DisconnectBegin(d) ==
    /\ disc[d].pc = "idle"
    /\ d > 1 => disc[d - 1].pc # "idle"
    /\ Commit(client_disconnect(World))
    /\ disc' = [disc EXCEPT ![d] = CloseBegin(World)]
    /\ UNCHANGED <<event_handlers, waits, remote, now, END_CALL, sd, conn, recv>>

(* ... and from the return of ws.close() *)
DisconnectFinish(d) ==
    /\ disc[d].pc = "closing"
    /\ Commit(api_disconnect_finish(World))
    /\ recv' = recv \ {disc[d].k}
    /\ disc' = [disc EXCEPT ![d].pc = "done"]
    /\ UNCHANGED <<event_handlers, waits, remote, now, END_CALL, sd, conn>>

(* RealtimeClient._handle_silence_disconnect up to ws.close(), or to its
   end when not connected *)
handle_silence_disconnect(w) ==
    IF is_connected(w) THEN client_disconnect(w) ELSE EndSession(w)

SilenceDisconnectBegin(i) ==
    /\ i \in DOMAIN sd
    /\ sd[i].pc = "posted"
    /\ Commit(handle_silence_disconnect(Notify(World, "conversation.timeout")))
    /\ sd' = [sd EXCEPT ![i] = CloseBegin(World)]
    /\ UNCHANGED <<event_handlers, waits, remote, now, END_CALL, disc, conn, recv>>

(* ... and from the return of ws.close(): self.ws = None, then
   session_created = False, conversation.clear(), and the forced disconnect
   that finds realtime.is_connected() false *)
SilenceDisconnectFinish(i) ==
    /\ i \in DOMAIN sd
    /\ sd[i].pc = "closing"
    /\ Commit(EndSession(api_disconnect_finish(World)))
    /\ recv' = recv \ {sd[i].k}
    /\ sd' = [sd EXCEPT ![i].pc = "done"]
    /\ UNCHANGED <<event_handlers, waits, remote, now, END_CALL, disc, conn>>

(* RealtimeClient._handle_end_call_disconnect up to ws.close(), entered
   with the transport connected *)
handle_end_call_disconnect(w) ==
    api_disconnect_begin(EndSession(Notify(Stop(w), "conversation.ended")))

(* the watcher after one pass of its loop that does something (a pass that
   only sleeps changes nothing): out of the loop when not connected, into
   _handle_end_call_disconnect when the flag is set *)
check_end_call_flag(w) ==
    IF ~is_connected(w)
    THEN [w EXCEPT !.watcher.pc = "done"]
    ELSE [handle_end_call_disconnect(w) EXCEPT !.watcher = CloseBegin(w)]

(* RealtimeClient._check_end_call_flag *)
CheckEndCallFlag ==
    /\ watcher.pc = "polling"
    /\ ws = 0 \/ END_CALL
    /\ END_CALL' = IF ws = 0 THEN END_CALL ELSE FALSE
    /\ Commit(check_end_call_flag(World))
    /\ UNCHANGED <<event_handlers, waits, remote, now, sd, disc, conn, recv>>

(* ... and from the return of ws.close(): self.ws = None, break *)
EndCallDisconnectFinish ==
    /\ watcher.pc = "closing"
    /\ Commit([api_disconnect_finish(World) EXCEPT !.watcher.pc = "done"])
    /\ recv' = recv \ {watcher.k}
    /\ UNCHANGED <<event_handlers, waits, remote, now, END_CALL, sd, disc, conn>>

----------------------------------------------------------------------------
(* The Timer thread: RealtimeClient._handle_silence_timeout *)

TimerDone(c, i) == Collect([c EXCEPT !.timers[i] = [st |-> "finished", deadline |-> 0]])

(* the elapsed-time test with > for >=: a fault WatchdogTerminates excludes *)
handle_silence_timeout_test_strict(c, i, t) ==
    IF ~c.silence_detection_active \/ c.timeout_triggered
    THEN TimerDone(c, i)
    ELSE IF t - c.last_activity_time > silence_timeout
         THEN [c EXCEPT !.timers[i].st = "running"]
         ELSE TimerDone(c, i)

(* from the expiry to the elapsed-time test *)
handle_silence_timeout_test(c, i, t) ==
    IF ~c.silence_detection_active \/ c.timeout_triggered
    THEN TimerDone(c, i)
    ELSE IF t - c.last_activity_time >= silence_timeout
         THEN [c EXCEPT !.timers[i].st = "running"]
         ELSE TimerDone(c, i)

(* if self.silence_timer: cancel it and drop the handle *)
cancel_silence_timer(c) ==
    IF c.silence_timer # 0
    THEN [TimerCancel(c, c.silence_timer) EXCEPT !.silence_timer = 0]
    ELSE c

(* the timer thread leaving timeout_triggered unset: a fault FiredIsLatched
   excludes *)
handle_silence_timeout_fire_unlatched(c, i) ==
    TimerDone(cancel_silence_timer([c EXCEPT !.silence_detection_active = FALSE]), i)

(* from the test to the end: latch, cancel the timer handle *)
handle_silence_timeout_fire(c, i) ==
    TimerDone(cancel_silence_timer([c EXCEPT !.timeout_triggered = TRUE,
                                             !.silence_detection_active = FALSE]), i)

TimerExpire(i) ==
    /\ client.timers[i].st = "armed"
    /\ client.timers[i].deadline <= now
    /\ client' = handle_silence_timeout_test(client, i, now)
    /\ UNCHANGED <<event_handlers, waits, remote, now, ws, closeCalls, conv, END_CALL, watcher, sd, disc, conn, calls,
                   greets, recv, sent, emitted, hist>>

(* loop.call_soon_threadsafe(... _handle_silence_disconnect()) when the
   loop is set and running *)
TimerFire(i) ==
    /\ client.timers[i].st = "running"
    /\ client' = handle_silence_timeout_fire(client, i)
    /\ sd' = IF client.loop THEN Append(sd, [pc |-> "posted", k |-> 0]) ELSE sd
    /\ hist' = [hist EXCEPT !.fires = @ + 1,
                            !.fire_idle = now - client.last_activity_time,
                            !.stops = IF client.silence_detection_active THEN @ + 1 ELSE @]
    /\ UNCHANGED <<event_handlers, waits, remote, now, ws, closeCalls, conv, END_CALL, watcher, disc, conn, calls,
                   greets, recv, sent, emitted>>

TimerDue == \E i \in TimerIds :
    \/ client.timers[i].st = "running"
    \/ client.timers[i].st = "armed" /\ client.timers[i].deadline <= now

(* a task that is ready to run on the loop: it runs within the tick *)
TaskReady ==
    \/ \E i \in DOMAIN sd : sd[i].pc = "posted"
    \/ \E i \in DOMAIN calls : calls[i].pc \in {"new", "respond"}
    \/ \E g \in DOMAIN greets : greets[g] \in {"new", "respond"}
    \/ watcher.pc = "polling" /\ (ws = 0 \/ END_CALL)

Tick ==
    /\ now < MaxTime
    /\ ~TimerDue
    /\ ~TaskReady
    /\ now' = now + TickSeconds
    /\ UNCHANGED <<event_handlers, waits, remote, ws, closeCalls, client, conv, END_CALL, watcher, sd, disc, conn,
                   calls, greets, recv, sent, emitted, hist>>

----------------------------------------------------------------------------
(* Connecting *)

(* RealtimeClient.connect up to the suspension in websockets.connect();
   on a connected client it raises and changes nothing *)
ConnectBegin ==
    /\ conn = "idle"
    /\ ws = 0
    /\ hist.opened < MaxConnects
    /\ client' = [client EXCEPT !.loop = TRUE]
    /\ conn' = "connecting"
    /\ UNCHANGED <<event_handlers, waits, remote, now, ws, closeCalls, conv, END_CALL, watcher, sd, disc, calls,
                   greets, recv, sent, emitted, hist>>

(* RealtimeAPI.connect from the return of websockets.connect(): self.ws is
   the new stream.  The history of the session starts afresh. *)
api_connected(w) ==
    [w EXCEPT !.ws = w.h.opened + 1,
              !.h.opened = @ + 1, !.h.clears = 0, !.h.stops = 0]

(* RealtimeClient.connect after realtime.connect(): update_session(), then
   timeout_triggered = False unless the send raised *)
client_connected(w) ==
    IF w.ok THEN [w EXCEPT !.c.timeout_triggered = FALSE] ELSE [w EXCEPT !.ok = TRUE]

ConnectEstablished ==
    /\ conn = "connecting"
    /\ recv' = recv \cup {hist.opened + 1}
    /\ Commit(client_connected(update_session(api_connected(World), now)))
    /\ conn' = "idle"
    /\ UNCHANGED <<event_handlers, waits, remote, now, END_CALL, sd, disc>>

----------------------------------------------------------------------------
(* Tool bridge *)

(* json.loads(arguments) and the call of the handler with the parsed
   keywords: of the
   argument texts the specifications build from "{" and "}", the one that
   parses to keywords a handler without parameters accepts *)
json_loads_ok(arguments) == arguments = "{}"

(* what a handler does when awaited: "returns", "raises", or the
   end_call_handler of tools/end_call.py, which sets END_CALL and returns *)
Handlers == {"returns", "raises", "end_call_handler"}
HandlerRaises(h) == h = "raises"

(* the function_call_output item _call_tool sends *)
OutputFrame(call_id, output) ==
    [type |-> "conversation.item.create", item_type |-> "function_call_output",
     call_id |-> call_id, output |-> output]

(* add_tool without the test for a registered name: a fault
   DuplicateToolRefused excludes *)
add_tool_overwrite(w, n, h, t) ==
    IF n = "" \/ h \notin Handlers
    THEN [w EXCEPT !.ok = FALSE]
    ELSE update_session([w EXCEPT !.c.tools = Put(w.c.tools, n, [handler |-> h])], t)

(* RealtimeClient.add_tool; definition["name"] is n *)
add_tool(w, n, h, t) ==
    IF n = "" \/ n \in DOMAIN w.c.tools \/ h \notin Handlers
    THEN [w EXCEPT !.ok = FALSE]
    ELSE update_session([w EXCEPT !.c.tools = Put(w.c.tools, n, [handler |-> h])], t)

(* RealtimeClient.remove_tool *)
remove_tool(w, n) ==
    IF n \notin DOMAIN w.c.tools
    THEN [w EXCEPT !.ok = FALSE]
    ELSE [w EXCEPT !.c.tools = Del(w.c.tools, n)]

(* task i after an awaited send: on to the next step, or ended by the
   exception, on the stream w.ws *)
AfterSend(w, i, next) ==
    IF w.ok THEN [w EXCEPT !.calls[i].pc = next]
    ELSE [w EXCEPT !.ok = TRUE, !.calls[i].pc = "unsent", !.calls[i].k = w.ws]

(* an except block that only logs: a fault ToolCallAnswered excludes *)
call_tool_except_silent(w, i, t) == w

(* _call_tool, the except block: the error output *)
call_tool_except(w, i, t) == send(w, OutputFrame(w.calls[i].call_id, "error"), t)

(* _call_tool, the try block from the return of the handler: the result
   output; a send that raises is caught by the except block *)
call_tool_retry(w, i, t) ==
    IF w.ok THEN w ELSE call_tool_except([w EXCEPT !.ok = TRUE], i, t)

call_tool_result(w, i, t) ==
    call_tool_retry(send(w, OutputFrame(w.calls[i].call_id, "result"), t), i, t)

(* _call_tool, the try block up to the await of the handler; what does not
   parse or is not registered goes to the except block *)
call_tool_try(w, i, t) ==
    IF ~json_loads_ok(w.item.formatted.tool.arguments)
    THEN AfterSend(call_tool_except([w EXCEPT !.calls[i].outcome = "bad_arguments"], i, t),
                   i, "respond")
    ELSE IF w.item.formatted.tool.name \notin DOMAIN w.c.tools
    THEN AfterSend(call_tool_except([w EXCEPT !.calls[i].outcome = "not_registered"], i, t),
                   i, "respond")
    ELSE [w EXCEPT !.calls[i].pc = "in_handler",
                   !.calls[i].handler = w.c.tools[w.item.formatted.tool.name].handler]

(* RealtimeClient._call_tool(tool) *)
call_tool(w, i, t) ==
    call_tool_try([w EXCEPT !.calls[i].call_id = w.item.formatted.tool.call_id], i, t)

(* _on_output_item_done after _process_event *)
output_item_done(w, i, t) ==
    IF ~w.ok THEN [w EXCEPT !.ok = TRUE, !.calls[i].pc = "raised"]
    ELSE IF IsItem(w.item) /\ "tool" \in DOMAIN w.item.formatted
    THEN call_tool(w, i, t)
    ELSE [Reset(w, t) EXCEPT !.calls[i].pc = "done"]

(* RealtimeClient._on_output_item_done up to its first suspension *)
on_output_item_done(w, i, t) ==
    output_item_done(client_process_event([w EXCEPT !.by = i], w.calls[i].ev, NoItem, t),
                     i, t)

OnOutputItemDone(i) ==
    /\ i \in DOMAIN calls
    /\ calls[i].pc = "new"
    /\ Commit(on_output_item_done(World, i, now))
    /\ UNCHANGED <<event_handlers, waits, remote, now, END_CALL, sd, disc, conn, recv>>

(* _call_tool from the end of the handler to the suspension in ws.send *)
call_tool_return(w, i, t) ==
    IF HandlerRaises(w.calls[i].handler)
    THEN AfterSend(call_tool_except([w EXCEPT !.calls[i].outcome = "raised"], i, t),
                   i, "respond")
    ELSE AfterSend(call_tool_result([w EXCEPT !.calls[i].outcome = "returned"], i, t),
                   i, "respond")

CallToolReturn(i) ==
    /\ i \in DOMAIN calls
    /\ calls[i].pc = "in_handler"
    /\ END_CALL' = IF calls[i].handler = "end_call_handler" THEN TRUE ELSE END_CALL
    /\ Commit(call_tool_return([World EXCEPT !.by = i], i, now))
    /\ UNCHANGED <<event_handlers, waits, remote, now, sd, disc, conn, recv>>

(* ... and from there: create_response(), then the _reset_silence_timer()
   of _call_tool and of _on_output_item_done *)
call_tool_respond(w, i, t) == AfterSend(ResetIfOk(create_response(w, t), t), i, "done")

CallToolRespond(i) ==
    /\ i \in DOMAIN calls
    /\ calls[i].pc = "respond"
    /\ Commit(call_tool_respond([World EXCEPT !.by = i], i, now))
    /\ UNCHANGED <<event_handlers, waits, remote, now, END_CALL, sd, disc, conn, recv>>

(* a greeting task after an awaited send *)
Greeted(w, g, next) ==
    IF w.ok THEN [w EXCEPT !.greets[g] = next]
    ELSE [w EXCEPT !.ok = TRUE, !.greets[g] = "raised"]

(* RealtimeClient.send_initial_conversation_item, task g: the item ... *)
SendInitialItem(g) ==
    /\ g \in DOMAIN greets
    /\ greets[g] = "new"
    /\ Commit(Greeted(send(World, [type |-> "conversation.item.create",
                                   item_type |-> "message", role |-> "user"], now),
                      g, "respond"))
    /\ UNCHANGED <<event_handlers, waits, remote, now, END_CALL, sd, disc, conn, recv>>

(* ... and the response request *)
SendInitialResponse(g) ==
    /\ g \in DOMAIN greets
    /\ greets[g] = "respond"
    /\ Commit(Greeted(send(World, [type |-> "response.create"], now), g, "done"))
    /\ UNCHANGED <<event_handlers, waits, remote, now, END_CALL, sd, disc, conn, recv>>

(* a registry operation joins the history: what was asked, whether it
   returned, and the registry it found *)
ToolOp(w, op, n, h, before) ==
    [w EXCEPT !.h.last = [op |-> op, name |-> n, handler |-> h, ok |-> w.ok],
              !.h.before = before,
              !.h.ops = Append(@, [op |-> op, name |-> n, ok |-> w.ok]),
              !.ok = TRUE]

(* the caller's add_tool(definition, handler) *)
AddTool(n, h) ==
    /\ Len(hist.ops) < MaxToolOps
    /\ Commit(ToolOp(add_tool(World, n, h, now), "add_tool", n, h, client.tools))
    /\ UNCHANGED <<event_handlers, waits, remote, now, END_CALL, sd, disc, conn, recv>>

(* the caller's remove_tool(name) *)
RemoveTool(n) ==
    /\ Len(hist.ops) < MaxToolOps
    /\ Commit(ToolOp(remove_tool(World, n), "remove_tool", n, "", client.tools))
    /\ UNCHANGED <<event_handlers, waits, remote, now, END_CALL, sd, disc, conn, recv>>

----------------------------------------------------------------------------
(* Inbound frames the specifications draw from *)

FunctionCallItem(id, name, call_id) ==
    [id |-> id, type |-> "function_call", name |-> name, call_id |-> call_id,
     arguments |-> "", status |-> "in_progress"]
AssistantMessage(id) ==
    [id |-> id, type |-> "message", role |-> "assistant", content |-> <<>>,
     status |-> "in_progress"]
UserMessage(id) ==
    [id |-> id, type |-> "message", role |-> "user",
     content |-> <<[type |-> "input_audio"]>>, status |-> "completed"]
TextPart == [type |-> "text", text |-> ""]
AudioPart == [type |-> "audio", transcript |-> ""]

TranscriptionCompleted(id, transcript) ==
    [type |-> "conversation.item.input_audio_transcription.completed",
     item_id |-> id, content_index |-> 0, transcript |-> transcript]

SessionCreated == [type |-> "session.created"]
ItemCreated(item) == [type |-> "conversation.item.created", item |-> item]
ArgumentsDelta(id, d) ==
    [type |-> "response.function_call_arguments.delta", item_id |-> id, delta |-> d]
OutputItemDone(id, status) ==
    [type |-> "response.output_item.done", item |-> [id |-> id, status |-> status]]
ResponseCreated(id) ==
    [type |-> "response.created", response |-> [id |-> id, output |-> <<>>]]
PartAdded(id, part) ==
    [type |-> "response.content_part.added", item_id |-> id, part |-> part]
TextDelta(id, d) ==
    [type |-> "response.text.delta", item_id |-> id, content_index |-> 0, delta |-> d]
TranscriptDelta(id, d) ==
    [type |-> "response.audio_transcript.delta", item_id |-> id, content_index |-> 0,
     delta |-> d]
AudioDelta(id, g, p) ==
    [type |-> "response.audio.delta", item_id |-> id, content_index |-> 0,
     delta |-> [groups |-> g, pad |-> p]]
Truncated(id, ms) ==
    [type |-> "conversation.item.truncated", item_id |-> id, audio_end_ms |-> ms]
SpeechStarted(id, ms) ==
    [type |-> "input_audio_buffer.speech_started", item_id |-> id, audio_start_ms |-> ms]
SpeechStopped(id, ms) ==
    [type |-> "input_audio_buffer.speech_stopped", item_id |-> id, audio_end_ms |-> ms]

Deleted(id) == [type |-> "conversation.item.deleted", item_id |-> id]
OutputItemAdded(rid, id) ==
    [type |-> "response.output_item.added", response_id |-> rid, item |-> [id |-> id]]
(* a server event the store has no processor for *)
RateLimitsUpdated == [type |-> "rate_limits.updated"]

(* the item of the store the event is addressed to, if it is there *)
Target(ev) ==
    IF "item_id" \in DOMAIN ev /\ ev.item_id \in DOMAIN conv.item_lookup
    THEN conv.item_lookup[ev.item_id]
    ELSE NoItem

(* the deltas the history holds for the item *)
Noted(id) ==
    IF id \in DOMAIN hist.deltas THEN hist.deltas[id] ELSE [text |-> "", transcript |-> ""]

(* bounds on what the remote end sends *)
AdmitDelta(it, ev) ==
    CASE ev.type = "response.function_call_arguments.delta" ->
            "arguments" \in DOMAIN it => Len(it.arguments) + Len(ev.delta) <= MaxArgs
      [] ev.type = "response.text.delta" ->
            Len(it.formatted.text) < MaxDeltas /\ Len(Noted(it.id).text) < MaxDeltas
      [] ev.type = "response.audio_transcript.delta" ->
            /\ Len(it.formatted.transcript) < MaxDeltas
            /\ Len(Noted(it.id).transcript) < MaxDeltas
      [] ev.type = "response.audio.delta" ->
            it.formatted.audio.kind = "list" => Len(it.formatted.audio.chunks) < MaxChunks
      [] ev.type = "response.content_part.added" ->
            "content" \in DOMAIN it => Len(it.content) < MaxParts
      [] OTHER -> TRUE

Admit(ev) ==
    CASE ev.type = "session.created" -> hist.starts < MaxStarts
      [] ev.type = "response.output_item.done" -> Len(calls) < MaxCalls
      [] OTHER -> IsItem(Target(ev)) => AdmitDelta(Target(ev), ev)

----------------------------------------------------------------------------
(* RealtimeClient() as constructed *)

NewClient ==
    [session_created |-> FALSE,
     tools |-> EmptyDict,
     turn_detection |-> "server_vad",
     input_audio_buffer |-> EmptyBytes,
     silence_timer |-> 0,
     last_activity_time |-> 0,
     silence_detection_active |-> FALSE,
     timeout_triggered |-> FALSE,
     loop |-> FALSE,
     loop_closed |-> FALSE,
     arming |-> FALSE,
     waiting |-> "none",
     end_call_check_task |-> FALSE,
     timers |-> [i \in TimerIds |-> FreeTimer]]

NoOp == [op |-> "", name |-> "", handler |-> "", ok |-> TRUE]

(* no dispatch is the last step of the registry *)
NoDispatch == [name |-> "", inline |-> <<>>, tasks |-> <<>>]

NewHist(log, trace) ==
    [log |-> log, trace |-> trace, starts |-> 0, opened |-> 0, clears |-> 0,
     stops |-> 0, fires |-> 0, fire_idle |-> 0, early |-> 0, late |-> FALSE,
     last |-> NoOp, before |-> EmptyDict, ops |-> <<>>, done |-> 0, disp |-> <<>>,
     seen |-> <<>>, last_dispatch |-> NoDispatch, wait_info |-> <<>>,
     regs |-> [n \in EventNames |-> <<>>],
     deltas |-> EmptyDict, disturbed |-> {}, trunc |-> NoItem]

Constructed(log, trace) ==
    /\ now = 0
    /\ ws = 0
    /\ closeCalls = [k \in StreamIds |-> 0]
    /\ remote = {}
    /\ event_handlers = [n \in EventNames |-> <<>>]
    /\ waits = <<>>
    /\ client = NewClient
    /\ conv = clear
    /\ END_CALL = FALSE
    /\ watcher = [pc |-> "none", k |-> 0]
    /\ sd = <<>>
    /\ disc = [d \in 1..MaxDisc |-> [pc |-> "idle", k |-> 0]]
    /\ conn = "idle"
    /\ calls = <<>>
    /\ greets = <<>>
    /\ recv = {}
    /\ sent = <<>>
    /\ emitted = [n \in {"conversation.timeout", "conversation.ended"} |-> 0]
    /\ hist = NewHist(log, trace)

Init == Constructed({}, FALSE)

----------------------------------------------------------------------------
(* RealtimeConversation used by itself *)

(* a call of process_event joins the history: the event, what came back,
   and the store it found *)
StoreOp(r, ev, cv0) ==
    /\ conv' = r.cv
    /\ hist' = [hist EXCEPT
                  !.last = [op |-> "process_event", ev |-> ev, item |-> IsItem(r.item),
                            delta |-> r.delta, raised |-> r.raised],
                  !.before = cv0]

(* conversation.process_event(event), and process_event(event, buffer) for
   speech_stopped *)
ProcessEvent(ev, buf) ==
    /\ StoreOp(process_event(conv, ev, buf), ev, conv)
    /\ UNCHANGED <<event_handlers, waits, remote, now, ws, closeCalls, client, END_CALL, watcher, sd, disc, conn,
                   calls, greets, recv, sent, emitted>>

----------------------------------------------------------------------------
(* Calls on the client by its owner *)

(* a call that returned or raised joins the history *)
CallerOp(w, op, arg) ==
    [w EXCEPT !.h.last = [op |-> op, name |-> arg, handler |-> "", ok |-> w.ok],
              !.h.done = @ + 1,
              !.ok = TRUE]

(* RealtimeAPI.connect up to websockets.connect(): raises when connected *)
api_connect_begin(w) == IF is_connected(w) THEN [w EXCEPT !.ok = FALSE] ELSE w

(* connect() without the is_connected() tests: a fault ConnectRefused
   excludes *)
client_connect_unchecked(w) == [w EXCEPT !.c.loop = TRUE]

(* RealtimeClient.connect up to websockets.connect(): raises when connected,
   else keeps the event loop and enters RealtimeAPI.connect *)
client_connect(w) ==
    IF is_connected(w) THEN [w EXCEPT !.ok = FALSE]
    ELSE api_connect_begin([w EXCEPT !.c.loop = TRUE])

(* the caller's connect() on a client that is connected *)
ConnectWhileConnected ==
    /\ ws # 0
    /\ conn = "idle"
    /\ hist.done < MaxCallerOps
    /\ Commit(CallerOp(client_connect(World), "connect", ""))
    /\ UNCHANGED <<event_handlers, waits, remote, now, END_CALL, sd, disc, conn, recv>>

(* RealtimeClient._reset_config *)
reset_config(c) ==
    [c EXCEPT !.session_created = FALSE,
              !.tools = EmptyDict,
              !.turn_detection = "server_vad",
              !.input_audio_buffer = [kind |-> "bytes", from |-> @.to, to |-> @.to]]

(* RealtimeClient.reset: _stop_silence_detection, the END_CALL task
   cancelled, then self.disconnect() without await, which makes a coroutine
   object that never runs; the handlers are cleared and registered anew,
   and _reset_config *)
client_reset(w) == [cancel_end_call_check(Stop(w)) EXCEPT !.c = reset_config(@)]

(* the caller's reset() *)
ResetClient ==
    /\ hist.done < MaxCallerOps
    /\ Commit(CallerOp(client_reset(World), "reset", ""))
    /\ UNCHANGED <<event_handlers, waits, remote, now, END_CALL, sd, disc, conn, recv>>

(* next((i for i, c in enumerate(item["content"]) if c["type"] == "audio"), -1) *)
AudioParts(it) == {i \in DOMAIN it.content : it.content[i].type = "audio"}
audio_index(it) ==
    IF AudioParts(it) = {} THEN -1
    ELSE (CHOOSE i \in AudioParts(it) : \A j \in AudioParts(it) : i <= j) - 1

(* int((sample_count / default_frequency) * 1000), for sample counts that
   are whole numbers of milliseconds, where the float arithmetic is exact *)
samples_to_ms(sample_count) == (sample_count * 1000) \div default_frequency

(* cancel_response from the return of the send of response.cancel: the
   audio part is looked for, then the truncation is sent *)
cancel_response_truncate(w, id, sample_count, t) ==
    IF ~w.ok THEN w
    ELSE IF audio_index(w.cv.item_lookup[id]) = -1
    THEN [w EXCEPT !.ok = FALSE]
    ELSE send(w, [type |-> "conversation.item.truncate", item_id |-> id,
                  content_index |-> audio_index(w.cv.item_lookup[id]),
                  audio_end_ms |-> samples_to_ms(sample_count)], t)

(* cancel_response with an id, after its _reset_silence_timer *)
cancel_response_item(w, id, sample_count, t) ==
    IF id \notin DOMAIN w.cv.item_lookup
    THEN [w EXCEPT !.ok = FALSE]
    ELSE IF w.cv.item_lookup[id].type # "message"
    THEN [w EXCEPT !.ok = FALSE]
    ELSE IF w.cv.item_lookup[id].role # "assistant"
    THEN [w EXCEPT !.ok = FALSE]
    ELSE cancel_response_truncate(send(w, [type |-> "response.cancel"], t),
                                  id, sample_count, t)

(* RealtimeClient.cancel_response; id "" is no id *)
cancel_response(w, id, sample_count, t) ==
    IF id = ""
    THEN send(Reset(w, t), [type |-> "response.cancel"], t)
    ELSE cancel_response_item(Reset(w, t), id, sample_count, t)

(* the caller's cancel_response(id, sample_count) *)
CancelResponse(id, sample_count) ==
    /\ hist.done < MaxCallerOps
    /\ Commit(CallerOp(cancel_response(World, id, sample_count, now),
                       "cancel_response", id))
    /\ UNCHANGED <<event_handlers, waits, remote, now, END_CALL, sd, disc, conn, recv>>

(* the caller's create_response() *)
CreateResponse ==
    /\ hist.done < MaxCallerOps
    /\ Commit(CallerOp(create_response(World, now), "create_response", ""))
    /\ UNCHANGED <<event_handlers, waits, remote, now, END_CALL, sd, disc, conn, recv>>

(* the caller's update_session(turn_detection=td) *)
UpdateSession(td) ==
    /\ hist.done < MaxCallerOps
    /\ Commit(CallerOp(update_session(update_session_config(World, td), now),
                       "update_session", td))
    /\ UNCHANGED <<event_handlers, waits, remote, now, END_CALL, sd, disc, conn, recv>>

(* the caller's realtime.send(event_name) *)
Send(event_name) ==
    /\ hist.done < MaxCallerOps
    /\ Commit(CallerOp(send(World, [type |-> event_name], now), "send", event_name))
    /\ UNCHANGED <<event_handlers, waits, remote, now, END_CALL, sd, disc, conn, recv>>

(* the remote end closes stream k: `async for message in self.ws` ends and
   with it _receive_messages; self.ws keeps the closed stream *)
RemoteClose(k) ==
    /\ k \in recv
    /\ k \notin remote
    /\ remote' = remote \cup {k}
    /\ recv' = recv \ {k}
    /\ UNCHANGED <<event_handlers, waits, now, ws, closeCalls, client, conv, END_CALL, watcher, sd, disc,
                   conn, calls, greets, sent, emitted, hist>>
----------------------------------------------------------------------------
(* The specifications.  Each starts in a state the program reaches from    *)
(* construction and follows the part of the program its properties are     *)
(* about.                                                                  *)

(* The watchdog: connect, session.created, one kind of activity, the clock,
   the timer thread, the timeout disconnect, one disconnect() *)
WatchEvents == {SessionCreated, ResponseCreated("r1")}

NextWatch ==
    \/ ConnectBegin
    \/ ConnectEstablished
    \/ \E k \in recv : \E ev \in WatchEvents : Admit(ev) /\ ReceiveMessage(k, ev)
    \/ \E g \in 1..MaxStarts : SendInitialItem(g)
    \/ \E g \in 1..MaxStarts : SendInitialResponse(g)
    \/ Tick
    \/ \E i \in TimerIds : TimerExpire(i)
    \/ \E i \in TimerIds : TimerFire(i)
    \/ \E i \in 1..MaxStarts : SilenceDisconnectBegin(i)
    \/ \E i \in 1..MaxStarts : SilenceDisconnectFinish(i)
    \/ CheckEndCallFlag
    \/ DisconnectBegin(1)
    \/ DisconnectFinish(1)

SpecWatch == Init /\ [][NextWatch]_vars

(* ... with the scheduling the runtime gives: a Timer thread that is due
   runs, a task posted to the running loop runs, ws.close() returns *)
SpecWatchFair ==
    /\ SpecWatch
    /\ \A i \in TimerIds : WF_vars(TimerExpire(i)) /\ WF_vars(TimerFire(i))
    /\ \A i \in 1..MaxStarts :
          WF_vars(SilenceDisconnectBegin(i)) /\ WF_vars(SilenceDisconnectFinish(i))

(* The conversation store behind a connected client: text and transcript *)
TextEvents ==
    {ItemCreated(AssistantMessage("a")), ItemCreated(AssistantMessage("b")),
     PartAdded("a", TextPart), PartAdded("b", AudioPart),
     TextDelta("a", "x"), TextDelta("a", "y"), TextDelta("b", "x"),
     TranscriptDelta("b", "x"), TranscriptDelta("b", "y"), TranscriptDelta("a", "x"),
     Truncated("b", 0)}

InitText == Constructed({}, TRUE)

NextText ==
    \/ ConnectBegin
    \/ ConnectEstablished
    \/ \E k \in recv : \E ev \in TextEvents : Admit(ev) /\ ReceiveMessage(k, ev)

SpecText == InitText /\ [][NextText]_vars

(* ... and audio; the frames are listed in a tuple because their delta
   fields are of different kinds *)
AudioEvents ==
    <<ItemCreated(AssistantMessage("b")), ItemCreated(UserMessage("u")),
     PartAdded("b", AudioPart), TranscriptDelta("b", "x"),
     AudioDelta("b", 11, 1), AudioDelta("b", 1, 0),
     Truncated("b", 0), Truncated("b", 1), Truncated("u", 100),
     SpeechStarted("u", 0), SpeechStarted("u", 100), SpeechStopped("u", 400)>>

NextAudio ==
    \/ ConnectBegin
    \/ ConnectEstablished
    \/ \E k \in recv : \E i \in DOMAIN AudioEvents :
          Admit(AudioEvents[i]) /\ ReceiveMessage(k, AudioEvents[i])
    \/ AppendInputAudio(MaxAudio)

SpecAudio == InitText /\ [][NextAudio]_vars

(* The tool registry *)
InitRegistry == Constructed({"session.update"}, FALSE)

NextRegistry ==
    \/ ConnectBegin
    \/ ConnectEstablished
    \/ \E n \in {"x", "y"} : \E h \in {"returns", "raises"} : AddTool(n, h)
    \/ \E n \in {"x", "y"} : RemoveTool(n)

SpecRegistry == InitRegistry /\ [][NextRegistry]_vars

(* A client that has connected, on its first stream, at time 0 *)
Connected(c, cv, h) ==
    /\ now = 0
    /\ ws = 1
    /\ closeCalls = [k \in StreamIds |-> 0]
    /\ remote = {}
    /\ event_handlers = [n \in EventNames |-> <<>>]
    /\ waits = <<>>
    /\ client = c
    /\ conv = cv
    /\ END_CALL = FALSE
    /\ sd = <<>>
    /\ disc = [d \in 1..MaxDisc |-> [pc |-> "idle", k |-> 0]]
    /\ conn = "idle"
    /\ calls = <<>>
    /\ recv = {1}
    /\ sent = <<>>
    /\ emitted = [n \in {"conversation.timeout", "conversation.ended"} |-> 0]
    /\ hist = h

Added(n, h) == [op |-> "add_tool", name |-> n, handler |-> h, ok |-> TRUE]

(* The tool bridge: the client after add_tool of "x" with a handler that
   returns and of "z" with one that raises, and connect(); then function
   calls of both, remove_tool("x") and one disconnect().  The frames
   recorded are the items created and the response requests. *)
ToolEvents ==
    {ItemCreated(FunctionCallItem("fc1", "x", "call_1")),
     ItemCreated(FunctionCallItem("fc2", "z", "call_2")),
     ArgumentsDelta("fc1", "{}"), ArgumentsDelta("fc2", "{}"),
     OutputItemDone("fc1", "completed"), OutputItemDone("fc2", "completed")}

InitTool ==
    /\ Connected([NewClient EXCEPT
                     !.loop = TRUE,
                     !.tools = Put(Put(EmptyDict, "x", [handler |-> "returns"]),
                                   "z", [handler |-> "raises"])],
                 clear,
                 [NewHist({"conversation.item.create", "response.create"}, FALSE) EXCEPT
                     !.opened = 1,
                     !.last = Added("z", "raises"),
                     !.before = Put(EmptyDict, "x", [handler |-> "returns"]),
                     !.ops = <<[op |-> "add_tool", name |-> "x", ok |-> TRUE],
                               [op |-> "add_tool", name |-> "z", ok |-> TRUE]>>])
    /\ watcher = [pc |-> "none", k |-> 0]
    /\ greets = <<>>

NextTool ==
    \/ RemoveTool("x")
    \/ \E k \in recv : \E ev \in ToolEvents : Admit(ev) /\ ReceiveMessage(k, ev)
    \/ \E i \in 1..MaxCalls : OnOutputItemDone(i)
    \/ \E i \in 1..MaxCalls : CallToolReturn(i)
    \/ \E i \in 1..MaxCalls : CallToolRespond(i)
    \/ DisconnectBegin(1)
    \/ DisconnectFinish(1)

SpecTool == InitTool /\ [][NextTool]_vars

(* Termination: the session after add_tool of end_call, connect(),
   session.created, the greeting, and a function call of end_call with its
   arguments; then the completion of the call, the clock, the watchdog, the
   END_CALL watcher and the caller's disconnect() calls *)
EndCallItem ==
    [FunctionCallItem("fc1", "end_call", "call_1") EXCEPT !.arguments = "{}"]

EndCallTool ==
    [type |-> "function", name |-> "end_call", call_id |-> "call_1", arguments |-> "{}"]

InitTerm ==
    /\ Connected([NewClient EXCEPT
                     !.session_created = TRUE,
                     !.loop = TRUE,
                     !.tools = Put(EmptyDict, "end_call", [handler |-> "end_call_handler"]),
                     !.silence_detection_active = TRUE,
                     !.end_call_check_task = TRUE,
                     !.silence_timer = 1,
                     !.timers[1] = [st |-> "armed", deadline |-> silence_timeout]],
                 [clear EXCEPT
                     !.items = <<"fc1">>,
                     !.item_lookup = Put(EmptyDict, "fc1",
                         Put(EndCallItem, "formatted",
                             [audio |-> EmptyList, text |-> "", transcript |-> "",
                              tool |-> EndCallTool]))],
                 [NewHist({}, FALSE) EXCEPT
                     !.opened = 1,
                     !.starts = 1,
                     !.last = Added("end_call", "end_call_handler"),
                     !.ops = <<[op |-> "add_tool", name |-> "end_call", ok |-> TRUE]>>])
    /\ watcher = [pc |-> "polling", k |-> 0]
    /\ greets = <<"done">>

NextTerm ==
    \/ \E k \in recv : Admit(OutputItemDone("fc1", "completed"))
                            /\ ReceiveMessage(k, OutputItemDone("fc1", "completed"))
    \/ \E i \in 1..MaxCalls : OnOutputItemDone(i)
    \/ \E i \in 1..MaxCalls : CallToolReturn(i)
    \/ \E i \in 1..MaxCalls : CallToolRespond(i)
    \/ Tick
    \/ \E i \in TimerIds : TimerExpire(i)
    \/ \E i \in TimerIds : TimerFire(i)
    \/ \E i \in 1..MaxStarts : SilenceDisconnectBegin(i)
    \/ \E i \in 1..MaxStarts : SilenceDisconnectFinish(i)
    \/ CheckEndCallFlag
    \/ EndCallDisconnectFinish
    \/ \E d \in 1..MaxDisc : DisconnectBegin(d)
    \/ \E d \in 1..MaxDisc : DisconnectFinish(d)

SpecTerm == InitTerm /\ [][NextTerm]_vars

(* The conversation store by itself: events for items and responses that
   are there and for ones that are not, and an event without a processor *)
StoreEvents ==
    <<ItemCreated(AssistantMessage("a")), ItemCreated(UserMessage("u")),
     OutputItemDone("a", "completed"), OutputItemDone("a", "incomplete"),
     OutputItemDone("u", "incomplete"), OutputItemDone("b", "completed"),
     PartAdded("a", TextPart), PartAdded("b", TextPart),
     TextDelta("a", "x"), TextDelta("b", "x"),
     TranscriptDelta("b", "x"), ArgumentsDelta("b", "{}"),
     AudioDelta("a", 1, 0), AudioDelta("b", 1, 0),
     Truncated("a", 0), Truncated("b", 0),
     Deleted("a"), Deleted("b"),
     ResponseCreated("r1"), OutputItemAdded("r1", "a"), OutputItemAdded("r2", "a"),
     SpeechStarted("u", 0), SpeechStopped("u", 400), SpeechStopped("v", 400),
     RateLimitsUpdated>>

(* bounds on what the store is given *)
StoreAdmit(ev) ==
    /\ Admit(ev)
    /\ (ev.type = "response.output_item.added"
          /\ ev.response_id \in DOMAIN conv.response_lookup)
       => conv.response_lookup[ev.response_id].output = <<>>

InitStore == Constructed({}, FALSE)

NextStore ==
    \E i \in DOMAIN StoreEvents :
        StoreAdmit(StoreEvents[i]) /\ ProcessEvent(StoreEvents[i], EmptyBytes)

SpecStore == InitStore /\ [][NextStore]_vars

(* The session and its owner: connect(), connect() again, frames, the
   greeting, reset() and one disconnect() *)
SessionEvents == {SessionCreated, ItemCreated(AssistantMessage("a"))}

NextSession ==
    \/ ConnectBegin
    \/ ConnectEstablished
    \/ ConnectWhileConnected
    \/ \E k \in recv : \E ev \in SessionEvents : Admit(ev) /\ ReceiveMessage(k, ev)
    \/ \E g \in 1..MaxStarts : SendInitialItem(g)
    \/ \E g \in 1..MaxStarts : SendInitialResponse(g)
    \/ CheckEndCallFlag
    \/ ResetClient
    \/ DisconnectBegin(1)
    \/ DisconnectFinish(1)

SpecSession == Init /\ [][NextSession]_vars

(* What the client sends: a connected client with an assistant message
   that may get an audio part and a user message, the turn detection set
   by update_session, audio appended, and cancel_response,
   create_response and realtime.send called.  The frames recorded are the
   ones these calls send. *)
OutboundEvents ==
    {ItemCreated(AssistantMessage("a")), ItemCreated(UserMessage("u")),
     PartAdded("a", AudioPart)}

InitOutbound ==
    Constructed({"input_audio_buffer.commit", "response.create", "response.cancel",
                 "conversation.item.truncate", "input_audio_buffer.clear"}, FALSE)

NextOutbound ==
    \/ ConnectBegin
    \/ ConnectEstablished
    \/ \E k \in recv : \E ev \in OutboundEvents : Admit(ev) /\ ReceiveMessage(k, ev)
    \/ \E td \in {"none", "null", "server_vad"} : UpdateSession(td)
    \/ AppendInputAudio(MaxAudio)
    \/ \E id \in {"", "a", "u", "b"} : \E n \in {0, default_frequency} :
          CancelResponse(id, n)
    \/ CreateResponse
    \/ Send("input_audio_buffer.clear")
    \/ DisconnectBegin(1)
    \/ DisconnectFinish(1)

SpecOutbound == InitOutbound /\ [][NextOutbound]_vars

(* The remote end: connect(), session.created, the greeting, audio from
   the caller, the clock and the watchdog, and the remote end closing the
   stream; with the scheduling the runtime gives, and a clock that goes on *)
NextRemote ==
    \/ ConnectBegin
    \/ ConnectEstablished
    \/ \E k \in recv : Admit(SessionCreated) /\ ReceiveMessage(k, SessionCreated)
    \/ \E k \in StreamIds : RemoteClose(k)
    \/ \E g \in 1..MaxStarts : SendInitialItem(g)
    \/ \E g \in 1..MaxStarts : SendInitialResponse(g)
    \/ AppendInputAudio(MaxAudio)
    \/ Tick
    \/ \E i \in TimerIds : TimerExpire(i)
    \/ \E i \in TimerIds : TimerFire(i)
    \/ \E i \in 1..MaxStarts : SilenceDisconnectBegin(i)
    \/ \E i \in 1..MaxStarts : SilenceDisconnectFinish(i)
    \/ CheckEndCallFlag

(* a step of the timer thread, and a step of the timeout disconnect that
   was posted to the loop *)
TimerStep == \E i \in TimerIds : TimerExpire(i) \/ TimerFire(i)
SilenceDisconnectStep ==
    \E i \in 1..MaxStarts : SilenceDisconnectBegin(i) \/ SilenceDisconnectFinish(i)

SpecRemoteFair ==
    /\ Init
    /\ [][NextRemote]_vars
    /\ WF_vars(Tick)
    /\ WF_vars(TimerStep)
    /\ WF_vars(SilenceDisconnectStep)
    /\ WF_vars(CheckEndCallFlag)
    /\ WF_vars(ConnectEstablished)

----------------------------------------------------------------------------
(* The end of the call asked for by a tool: the client after add_tool of
   the end_call tool of tools/end_call.py and connect(), its sessions, the
   watcher of END_CALL.  The clock
   stands still, so the watchdog never fires, and the caller never
   disconnects: the watcher is the only path that ends a session.  The
   remote end opens every session with one session.created, as the
   protocol has it, before it sends anything else; it sends nothing on a
   stream that is being closed, and asks for one function call at a time. *)
EndCallEvents ==
    {SessionCreated, ItemCreated(FunctionCallItem("fc1", "end_call", "call_1")),
     ArgumentsDelta("fc1", "{}"), OutputItemDone("fc1", "completed")}

InitEndCall ==
    /\ Connected([NewClient EXCEPT
                     !.loop = TRUE,
                     !.tools = Put(EmptyDict, "end_call", [handler |-> "end_call_handler"])],
                 clear,
                 [NewHist({}, FALSE) EXCEPT
                     !.opened = 1,
                     !.last = Added("end_call", "end_call_handler"),
                     !.ops = <<[op |-> "add_tool", name |-> "end_call", ok |-> TRUE]>>])
    /\ watcher = [pc |-> "none", k |-> 0]
    /\ greets = <<>>

NextEndCall ==
    \/ ConnectBegin
    \/ ConnectEstablished
    \/ \E k \in recv : \E ev \in EndCallEvents :
          /\ Admit(ev)
          /\ closeCalls[k] = 0
          /\ ev.type = "session.created" <=> ~client.session_created
          /\ ev.type = "response.output_item.done" =>
                \A i \in DOMAIN calls : calls[i].pc \in {"done", "unsent", "raised"}
          /\ ReceiveMessage(k, ev)
    \/ \E g \in 1..MaxStarts : SendInitialItem(g)
    \/ \E g \in 1..MaxStarts : SendInitialResponse(g)
    \/ \E i \in 1..MaxCalls : OnOutputItemDone(i)
    \/ \E i \in 1..MaxCalls : CallToolReturn(i)
    \/ \E i \in 1..MaxCalls : CallToolRespond(i)
    \/ CheckEndCallFlag
    \/ EndCallDisconnectFinish

(* a step the loop takes by itself: the watcher when it is ready, and the
   return of ws.close() *)
EndCallStep == CheckEndCallFlag \/ EndCallDisconnectFinish

SpecEndCallFair == InitEndCall /\ [][NextEndCall]_vars /\ WF_vars(EndCallStep)

----------------------------------------------------------------------------
(* RealtimeEventHandler: the registry of handlers, dispatch, wait_for_next *)

(* the handlers a caller registers: a plain function "f" and a coroutine
   function "co"; w is 0 for them *)
Callbacks ==
    {[kind |-> "sync", id |-> "f", w |-> 0], [kind |-> "async", id |-> "co", w |-> 0]}

(* the closure `handler` of the w-th wait_for_next call *)
WaitHandler(w) == [kind |-> "waiter", id |-> "", w |-> w]

(* inspect.iscoroutinefunction(handler) *)
iscoroutinefunction(handler) == handler.kind = "async"

(* a registration that replaces what is registered: a fault
   DispatchInvokesRegistered excludes *)
on_replace(eh, event_name, handler) == [eh EXCEPT ![event_name] = <<handler>>]

(* RealtimeEventHandler.on *)
on(eh, event_name, handler) == [eh EXCEPT ![event_name] = Append(@, handler)]

(* RealtimeEventHandler.clear_event_handlers: a fresh defaultdict(list) *)
clear_event_handlers == [n \in EventNames |-> <<>>]

(* the closure without the test of future.done(): a fault
   WaitResolvedByFirst excludes *)
set_result_always(ws_, w, event) == [ws_ EXCEPT ![w].future = event]

(* the closure of wait_for_next: if not future.done(): future.set_result(event);
   a future holds 0 until it has a result *)
set_result(ws_, w, event) ==
    [ws_ EXCEPT ![w].future = IF @ = 0 THEN event ELSE @]

(* one pass of the loop of dispatch: a coroutine function is called and
   its coroutine made a task, anything else is called and runs inline *)
dispatch_handler(r, handler, event) ==
    IF iscoroutinefunction(handler)
    THEN [r EXCEPT !.tasks = Append(@, handler.id)]
    ELSE IF handler.kind = "waiter"
    THEN [r EXCEPT !.inline = Append(@, handler), !.waits = set_result(@, handler.w, event)]
    ELSE [r EXCEPT !.inline = Append(@, handler)]

(* RealtimeEventHandler.dispatch: for handler in self.event_handlers[event_name] *)
RECURSIVE dispatch_loop(_, _, _, _)
dispatch_loop(r, hs, i, event) ==
    IF i > Len(hs) THEN r
    ELSE dispatch_loop(dispatch_handler(r, hs[i], event), hs, i + 1, event)

dispatch(eh, ws_, event_name, event) ==
    dispatch_loop([inline |-> <<>>, tasks |-> <<>>, waits |-> ws_],
                  eh[event_name], 1, event)

(* nothing of the session moves in a step of the registry *)
SessionUnchanged ==
    UNCHANGED <<remote, now, ws, closeCalls, client, conv, END_CALL, watcher, sd, disc,
                conn, calls, greets, recv, sent, emitted>>

(* the number of handlers registered *)
Registered(eh) == Len(eh["a"]) + Len(eh["b"])

(* the caller's on(event_name, handler); the history keeps the
   registrations asked for since the last clear, and for a wait_for_next
   call the dispatches before it (at) and up to the clear that ended its
   subscription (until) *)
On(event_name, handler) ==
    /\ Registered(event_handlers) < MaxHandlers
    /\ event_handlers' = on(event_handlers, event_name, handler)
    /\ hist' = [hist EXCEPT !.last_dispatch = NoDispatch,
                            !.regs[event_name] = Append(@, handler)]
    /\ UNCHANGED waits
    /\ SessionUnchanged

(* the caller's clear_event_handlers() *)
ClearEventHandlers ==
    /\ event_handlers' = clear_event_handlers
    /\ hist' = [hist EXCEPT
           !.last_dispatch = NoDispatch,
           !.regs = [n \in EventNames |-> <<>>],
           !.wait_info = [i \in DOMAIN @ |->
                             [@[i] EXCEPT !.until = Min(@, Len(hist.seen))]]]
    /\ UNCHANGED waits
    /\ SessionUnchanged

(* a dispatch(event_name, event); the history keeps what it called.  The
   event of the n-th dispatch is n. *)
Dispatch(event_name, event) ==
    /\ Len(hist.seen) < MaxDispatches
    /\ waits' = dispatch(event_handlers, waits, event_name, event).waits
    /\ hist' = [hist EXCEPT
           !.seen = Append(@, [name |-> event_name, event |-> event]),
           !.last_dispatch =
               [name |-> event_name,
                inline |-> dispatch(event_handlers, waits, event_name, event).inline,
                tasks |-> dispatch(event_handlers, waits, event_name, event).tasks]]
    /\ UNCHANGED event_handlers
    /\ SessionUnchanged

(* a wait_for_next(event_name) up to its await: the future, the handler
   registered for event_name *)
WaitForNext(event_name) ==
    /\ Len(waits) < MaxWaits
    /\ waits' = Append(waits, [name |-> event_name, future |-> 0])
    /\ event_handlers' = on(event_handlers, event_name, WaitHandler(Len(waits) + 1))
    /\ hist' = [hist EXCEPT
           !.last_dispatch = NoDispatch,
           !.regs[event_name] = Append(@, WaitHandler(Len(waits) + 1)),
           !.wait_info = Append(@, [at |-> Len(hist.seen), until |-> MaxDispatches])]
    /\ SessionUnchanged

NextHandlers ==
    \/ \E n \in EventNames : \E h \in Callbacks : On(n, h)
    \/ ClearEventHandlers
    \/ \E n \in EventNames : Dispatch(n, Len(hist.seen) + 1)
    \/ \E n \in EventNames : WaitForNext(n)

SpecHandlers == Init /\ [][NextHandlers]_vars

----------------------------------------------------------------------------
(* The Timer thread when the application ends its event loop (asyncio.run
   returns) between the thread's loop.is_running() and its
   loop.call_soon_threadsafe(): the call raises, and the except block runs
   _handle_silence_disconnect() to completion on a new loop, in the thread. *)

(* the end of asyncio.run: the tasks left on the loop are cancelled, the
   loop is closed *)
loop_shutdown(w) ==
    [w EXCEPT !.c.loop_closed = TRUE,
              !.watcher.pc = IF @ \in {"polling", "closing"} THEN "cancelled" ELSE @]

(* _handle_silence_disconnect run to its end without a suspension that
   yields to another task.  ws.close() on a stream of the closed loop
   either returns or raises; when it raises, disconnect() is left at the
   except block and the forced disconnect raises again. *)
silence_disconnect_fallback(w, raises) ==
    IF ~is_connected(w) THEN EndSession(Notify(w, "conversation.timeout"))
    ELSE IF raises
    THEN api_disconnect_begin(EndSession(
             client_disconnect(Notify(w, "conversation.timeout"))))
    ELSE EndSession(api_disconnect_finish(
             client_disconnect(Notify(w, "conversation.timeout"))))

(* _handle_silence_timeout from the elapsed-time test on, on that path *)
handle_silence_timeout_fallback(w, i, raises, t) ==
    silence_disconnect_fallback(
        loop_shutdown([w EXCEPT
            !.c = handle_silence_timeout_fire(w.c, i),
            !.h.fires = @ + 1,
            !.h.fire_idle = t - w.c.last_activity_time,
            !.h.stops = IF w.c.silence_detection_active THEN @ + 1 ELSE @]),
        raises)

TimerFireFallback(i, raises) ==
    /\ client.timers[i].st = "running"
    /\ client.loop
    /\ ~client.loop_closed
    /\ Commit(handle_silence_timeout_fallback(World, i, raises, now))
    /\ recv' = {}
    /\ UNCHANGED <<event_handlers, waits, remote, now, END_CALL, sd, disc, conn>>

(* a session in progress, the clock, activity from the remote end, the
   Timer thread on both paths, the timeout disconnect on the loop *)
NextTimerThread ==
    \/ Tick
    \/ \E i \in TimerIds : TimerExpire(i)
    \/ \E i \in TimerIds : \E raises \in BOOLEAN : TimerFireFallback(i, raises)
    \/ /\ ~client.loop_closed
       /\ \/ \E i \in TimerIds : TimerFire(i)
          \/ \E k \in recv : ReceiveMessage(k, ResponseCreated("r1"))
          \/ \E i \in 1..MaxStarts : SilenceDisconnectBegin(i)
          \/ \E i \in 1..MaxStarts : SilenceDisconnectFinish(i)

SpecTimerThread == InitTerm /\ [][NextTimerThread]_vars

----------------------------------------------------------------------------
(* The Timer thread one step finer: the deadline passes and the callback
   is entered (Timer.cancel() is without effect from here), and later the
   callback makes its tests.  Activity on the loop can come in between. *)
TimerBegin(i) ==
    /\ client.timers[i].st = "armed"
    /\ client.timers[i].deadline <= now
    /\ client' = [client EXCEPT !.timers[i].st = "begun"]
    /\ UNCHANGED <<event_handlers, waits, remote, now, ws, closeCalls, conv, END_CALL,
                   watcher, sd, disc, conn, calls, greets, recv, sent, emitted, hist>>

(* the expiry found the watchdog active and the quiet time not yet passed *)
ExpiredEarly(c, t) ==
    /\ c.silence_detection_active
    /\ ~c.timeout_triggered
    /\ t - c.last_activity_time < silence_timeout

TimerTest(i) ==
    /\ client.timers[i].st = "begun"
    /\ client' = handle_silence_timeout_test(client, i, now)
    /\ hist' = [hist EXCEPT !.early = IF ExpiredEarly(client, now) THEN @ + 1 ELSE @]
    /\ UNCHANGED <<event_handlers, waits, remote, now, ws, closeCalls, conv, END_CALL,
                   watcher, sd, disc, conn, calls, greets, recv, sent, emitted>>

(* a session in progress: the clock, which waits for a callback that has
   been entered, activity from the remote end, the Timer thread, the
   timeout disconnect *)
NextTimerRace ==
    \/ Tick /\ \A i \in TimerIds : client.timers[i].st # "begun"
    \/ \E k \in recv : ReceiveMessage(k, ResponseCreated("r1"))
    \/ \E i \in TimerIds : TimerBegin(i)
    \/ \E i \in TimerIds : TimerTest(i)
    \/ \E i \in TimerIds : TimerFire(i)
    \/ \E i \in 1..MaxStarts : SilenceDisconnectBegin(i)
    \/ \E i \in 1..MaxStarts : SilenceDisconnectFinish(i)

SpecTimerRace == InitTerm /\ [][NextTimerRace]_vars

----------------------------------------------------------------------------
(* The watchdog's fields are shared by the loop and the Timer thread       *)
(* without a lock.  Here both sides are cut where the other can run in     *)
(* between: the loop inside _reset_silence_timer between the test of       *)
(* _schedule_silence_timer and the assignment of the new Timer             *)
(* (client.arming), the Timer thread between silence_timer.cancel() and    *)
(* silence_timer = None (timer state "latched").                           *)

(* _reset_silence_timer up to the test of _schedule_silence_timer *)
reset_silence_timer_enter(c, t) ==
    IF ~c.silence_detection_active \/ c.timeout_triggered
    THEN c
    ELSE IF c.silence_timer # 0
    THEN [TimerCancel(c, c.silence_timer) EXCEPT !.last_activity_time = t, !.arming = TRUE]
    ELSE [c EXCEPT !.last_activity_time = t, !.arming = TRUE]

(* _schedule_silence_timer after its test: the Timer is created, assigned
   and started *)
schedule_silence_timer_arm(c, t) ==
    LET c0 == Collect([c EXCEPT !.silence_timer = 0, !.arming = FALSE])
        i == FreshTimer(c0)
    IN [c0 EXCEPT !.timers[i] = [st |-> "armed", deadline |-> t + silence_timeout],
                  !.silence_timer = i]

(* one round of _receive_messages up to that point of _log_event *)
receive_message_enter(w, ev, t) ==
    LET w1 == Handle(Late(w), ev, t)
    IN IF w1.ok THEN [w1 EXCEPT !.c = reset_silence_timer_enter(w1.c, t)] ELSE w1

ReceiveMessageEnter(k, ev) ==
    /\ k \in recv
    /\ ~client.arming
    /\ Received(k, receive_message_enter(World, ev, now))
    /\ UNCHANGED <<event_handlers, waits, remote, now, END_CALL, sd, disc, conn>>

ScheduleArm ==
    /\ client.arming
    /\ client' = schedule_silence_timer_arm(client, now)
    /\ UNCHANGED <<event_handlers, waits, remote, now, ws, closeCalls, conv, END_CALL,
                   watcher, sd, disc, conn, calls, greets, recv, sent, emitted, hist>>

(* _handle_silence_timeout from the test to silence_timer.cancel() *)
handle_silence_timeout_latch(c, i) ==
    LET c1 == [c EXCEPT !.timeout_triggered = TRUE, !.silence_detection_active = FALSE]
    IN IF c1.silence_timer # 0
       THEN [TimerCancel(c1, c1.silence_timer) EXCEPT !.timers[i].st = "latched"]
       ELSE [c1 EXCEPT !.timers[i].st = "posting"]

(* ... and from silence_timer = None to the end *)
handle_silence_timeout_release(c, i) ==
    IF c.timers[i].st = "latched"
    THEN TimerDone([c EXCEPT !.silence_timer = 0], i)
    ELSE TimerDone(c, i)

TimerLatch(i) ==
    /\ client.timers[i].st = "running"
    /\ client' = handle_silence_timeout_latch(client, i)
    /\ UNCHANGED <<event_handlers, waits, remote, now, ws, closeCalls, conv, END_CALL,
                   watcher, sd, disc, conn, calls, greets, recv, sent, emitted, hist>>

TimerRelease(i) ==
    /\ client.timers[i].st \in {"latched", "posting"}
    /\ client' = handle_silence_timeout_release(client, i)
    /\ sd' = IF client.loop THEN Append(sd, [pc |-> "posted", k |-> 0]) ELSE sd
    /\ hist' = [hist EXCEPT !.fires = @ + 1,
                            !.fire_idle = now - client.last_activity_time]
    /\ UNCHANGED <<event_handlers, waits, remote, now, ws, closeCalls, conv, END_CALL,
                   watcher, disc, conn, calls, greets, recv, sent, emitted>>

(* the loop runs one thing at a time: nothing else while it is inside
   _schedule_silence_timer.  The remote end sends session.created first
   and once per stream, and nothing on a stream that is being closed. *)
LoopStep ==
    \/ Tick
    \/ \E k \in recv : closeCalls[k] = 0 /\ client.session_created
                            /\ ReceiveMessageEnter(k, ResponseCreated("r1"))
    \/ \E k \in recv : closeCalls[k] = 0 /\ ~client.session_created
                            /\ ReceiveMessage(k, SessionCreated)
    \/ \E i \in 1..MaxStarts : SilenceDisconnectBegin(i)
    \/ \E i \in 1..MaxStarts : SilenceDisconnectFinish(i)
    \/ CheckEndCallFlag
    \/ ConnectBegin
    \/ ConnectEstablished

NextTimerInterleaved ==
    \/ ~client.arming /\ LoopStep
    \/ ScheduleArm
    \/ \E i \in TimerIds : TimerExpire(i)
    \/ \E i \in TimerIds : TimerLatch(i)
    \/ \E i \in TimerIds : TimerRelease(i)

SpecTimerInterleaved == InitTerm /\ [][NextTimerInterleaved]_vars

----------------------------------------------------------------------------
(* A function call whose output item is reported done with the statuses
   the protocol has, one report at a time *)
ItemStatuses == <<"in_progress", "incomplete", "completed">>

ToolStatusEvents ==
    <<ItemCreated(FunctionCallItem("fc1", "x", "call_1")),
      ArgumentsDelta("fc1", "{}"),
      OutputItemDone("fc1", ItemStatuses[1]),
      OutputItemDone("fc1", ItemStatuses[2]),
      OutputItemDone("fc1", ItemStatuses[3])>>

NextToolStatus ==
    \/ \E k \in recv : \E e \in DOMAIN ToolStatusEvents :
           /\ Admit(ToolStatusEvents[e])
           /\ e > 2 => /\ "fc1" \in DOMAIN conv.item_lookup
                       /\ \A i \in DOMAIN calls : calls[i].pc \in {"done", "unsent", "raised"}
           /\ ReceiveMessage(k, ToolStatusEvents[e])
    \/ \E i \in 1..MaxCalls : OnOutputItemDone(i)
    \/ \E i \in 1..MaxCalls : CallToolReturn(i)
    \/ \E i \in 1..MaxCalls : CallToolRespond(i)

SpecToolStatus == InitTool /\ [][NextToolStatus]_vars

----------------------------------------------------------------------------
(* The store given user items and the transcripts of their audio, in any
   order: an empty transcript and others, for two items *)
TranscriptEvents ==
    <<ItemCreated(UserMessage("u")), ItemCreated(UserMessage("v")),
      TranscriptionCompleted("u", ""), TranscriptionCompleted("u", "hi"),
      TranscriptionCompleted("v", ""), TranscriptionCompleted("v", "yo")>>

NextTranscript ==
    \E i \in DOMAIN TranscriptEvents : ProcessEvent(TranscriptEvents[i], EmptyBytes)

SpecTranscript == InitStore /\ [][NextTranscript]_vars

----------------------------------------------------------------------------
(* The store given items of each kind, each with every status the event
   can carry, and input audio queued by create_response *)
QueuedBuffers ==
    {[kind |-> "bytes", from |-> 0, to |-> 0], [kind |-> "bytes", from |-> 0, to |-> 4]}

FunctionCallOutputItem(id, call_id) ==
    [id |-> id, type |-> "function_call_output", call_id |-> call_id,
     output |-> "{}", status |-> "in_progress"]

CreatedItems ==
    <<UserMessage("u"), UserMessage("v"), AssistantMessage("a"),
      [FunctionCallItem("fc1", "x", "call_1") EXCEPT !.arguments = "{}"],
      FunctionCallOutputItem("o1", "call_1")>>

(* conversation.queue_input_audio(buffer), called by create_response *)
QueueAudio(audio) ==
    /\ conv' = queue_input_audio(conv, audio)
    /\ hist' = [hist EXCEPT !.last = [op |-> "queue_input_audio", ok |-> TRUE],
                            !.before = conv]
    /\ UNCHANGED <<event_handlers, waits, remote, now, ws, closeCalls, client, END_CALL,
                   watcher, sd, disc, conn, calls, greets, recv, sent, emitted>>

NextCreated ==
    \/ \E i \in DOMAIN CreatedItems : \E s \in DOMAIN ItemStatuses :
          ProcessEvent(ItemCreated([CreatedItems[i] EXCEPT !.status = ItemStatuses[s]]),
                       EmptyBytes)
    \/ \E audio \in QueuedBuffers : QueueAudio(audio)

SpecCreated == InitStore /\ [][NextCreated]_vars

----------------------------------------------------------------------------
(* The caller's requests on a connected client while the clock goes on *)
NextIds ==
    \/ ConnectBegin
    \/ ConnectEstablished
    \/ \E td \in {"none", "server_vad"} : UpdateSession(td)
    \/ AppendInputAudio(MaxAudio)
    \/ CreateResponse
    \/ Tick

SpecIds == InitOutbound /\ [][NextIds]_vars

----------------------------------------------------------------------------
(* Two connect() calls that overlap: the second is made while the first is
   suspended in websockets.connect(), when self.ws is still None.  conn
   tells how many are suspended there: "connecting" one, "both" two. *)
ConnectBeginSecond ==
    /\ conn = "connecting"
    /\ ws = 0
    /\ hist.opened + 1 < MaxConnects
    /\ client' = [client EXCEPT !.loop = TRUE]
    /\ conn' = "both"
    /\ UNCHANGED <<event_handlers, waits, remote, now, ws, closeCalls, conv, END_CALL,
                   watcher, sd, disc, calls, greets, recv, sent, emitted, hist>>

(* the first of the two gets its stream: self.ws, the inbound loop,
   update_session(); the other is still suspended *)
ConnectEstablishedFirst ==
    /\ conn = "both"
    /\ recv' = recv \cup {hist.opened + 1}
    /\ Commit(client_connected(update_session(api_connected(World), now)))
    /\ conn' = "connecting"
    /\ UNCHANGED <<event_handlers, waits, remote, now, END_CALL, sd, disc>>

NextOverlap ==
    \/ ConnectBegin
    \/ ConnectBeginSecond
    \/ ConnectEstablishedFirst
    \/ ConnectEstablished
    \/ \E k \in recv : \E ev \in SessionEvents : Admit(ev) /\ ReceiveMessage(k, ev)
    \/ \E g \in 1..MaxStarts : SendInitialItem(g)
    \/ \E g \in 1..MaxStarts : SendInitialResponse(g)
    \/ DisconnectBegin(1)
    \/ DisconnectFinish(1)

SpecOverlap == Init /\ [][NextOverlap]_vars

----------------------------------------------------------------------------
(* Another session of the same process (routes/websocket.py makes one
   RealtimeClient per caller): realtime.globals.END_CALL is the one flag of
   the module, written by every end_call_handler and read by every
   watcher.  Of the other session only what it does to the flag matters. *)

(* end_call_handler of a tool call of the other session, after its sleep *)
OtherEndCallHandler ==
    /\ ~END_CALL
    /\ END_CALL' = TRUE
    /\ UNCHANGED <<client, event_handlers, waits, remote, now, ws, closeCalls, conv,
                   watcher, sd, disc, conn, calls, greets, recv, sent, emitted, hist>>

(* _check_end_call_flag of the other session finds the flag set: it resets
   it and ends the other session *)
OtherCheckEndCallFlag ==
    /\ END_CALL
    /\ END_CALL' = FALSE
    /\ UNCHANGED <<client, event_handlers, waits, remote, now, ws, closeCalls, conv,
                   watcher, sd, disc, conn, calls, greets, recv, sent, emitted, hist>>

NextTwoSessions == NextEndCall \/ OtherEndCallHandler \/ OtherCheckEndCallFlag

SpecTwoSessions == InitEndCall /\ [][NextTwoSessions]_vars

----------------------------------------------------------------------------
(* The session with the end_call tool and a caller who disconnects and
   connects again: the task of a tool call is not cancelled by
   disconnect() and its handler may finish afterwards *)
InitCarried ==
    /\ Connected([NewClient EXCEPT
                     !.loop = TRUE,
                     !.tools = Put(EmptyDict, "end_call", [handler |-> "end_call_handler"])],
                 clear,
                 [NewHist({"conversation.item.create"}, FALSE) EXCEPT
                     !.opened = 1,
                     !.last = Added("end_call", "end_call_handler"),
                     !.ops = <<[op |-> "add_tool", name |-> "end_call", ok |-> TRUE]>>])
    /\ watcher = [pc |-> "none", k |-> 0]
    /\ greets = <<>>

NextCarried == NextEndCall \/ DisconnectBegin(1) \/ DisconnectFinish(1)

SpecCarried == InitCarried /\ [][NextCarried]_vars

----------------------------------------------------------------------------
(* RealtimeClient.wait_for_session_created, called once by the caller;
   client.waiting is the position of the call: none, polling (asleep in the
   while loop), returned, raised *)
wait_for_session_created_enter(w) ==
    IF ~is_connected(w)
    THEN [w EXCEPT !.c.waiting = "raised"]
    ELSE IF w.c.session_created
    THEN [w EXCEPT !.c.waiting = "returned"]
    ELSE [w EXCEPT !.c.waiting = "polling"]

WaitForSessionCreated ==
    /\ client.waiting = "none"
    /\ conn = "idle"
    /\ Commit(wait_for_session_created_enter(World))
    /\ UNCHANGED <<event_handlers, waits, remote, now, END_CALL, sd, disc, conn, recv>>

(* one pass of `while not self.session_created` that leaves the loop (a
   pass that only sleeps changes nothing) *)
wait_for_session_created_poll(w) == [w EXCEPT !.c.waiting = "returned"]

WaitPoll ==
    /\ client.waiting = "polling"
    /\ client.session_created
    /\ Commit(wait_for_session_created_poll(World))
    /\ UNCHANGED <<event_handlers, waits, remote, now, END_CALL, sd, disc, conn, recv>>

NextWait ==
    \/ ConnectBegin
    \/ ConnectEstablished
    \/ \E k \in recv : Admit(SessionCreated) /\ ReceiveMessage(k, SessionCreated)
    \/ \E g \in 1..MaxStarts : SendInitialItem(g)
    \/ \E g \in 1..MaxStarts : SendInitialResponse(g)
    \/ CheckEndCallFlag
    \/ \E d \in 1..MaxDisc : DisconnectBegin(d)
    \/ \E d \in 1..MaxDisc : DisconnectFinish(d)
    \/ \E k \in StreamIds : RemoteClose(k)
    \/ WaitForSessionCreated
    \/ WaitPoll

(* the loop runs the waiter when its sleep is over *)
SpecWaitFair == Init /\ [][NextWait]_vars /\ WF_vars(WaitPoll)

----------------------------------------------------------------------------
(* Properties *)

(* the frames task i sent, in order *)
FramesBy(i) == SelectSeq(sent, LAMBDA f : f.by = i)

(* the call_id of the function call the task's event completes *)
CallIdOf(i) == conv.item_lookup[calls[i].ev.item.id].call_id

IsOutput(f, i) ==
    /\ f.type = "conversation.item.create"
    /\ f.item_type = "function_call_output"
    /\ f.call_id = calls[i].call_id
    /\ f.output = IF calls[i].outcome = "returned" THEN "result" ELSE "error"

(* C1: a function call that completes gets exactly one function_call_output
   with its call_id and then exactly one response.create, whether the
   handler returned, raised, was not registered or the arguments did not
   parse; a task sends nothing else, and it ends without them only on a
   stream that is closed or being closed. *)
ToolCallAnswered ==
    \A i \in DOMAIN calls :
        CASE calls[i].pc = "done" ->
                /\ Len(FramesBy(i)) = 2
                /\ IsOutput(FramesBy(i)[1], i)
                /\ FramesBy(i)[2].type = "response.create"
                /\ calls[i].outcome \in {"returned", "raised", "not_registered",
                                         "bad_arguments"}
          [] calls[i].pc = "respond" ->
                Len(FramesBy(i)) = 1 /\ IsOutput(FramesBy(i)[1], i)
          [] calls[i].pc = "unsent" ->
                /\ calls[i].k = 0 \/ closeCalls[calls[i].k] > 0
                /\ Len(FramesBy(i)) <= 1
                /\ \A j \in DOMAIN FramesBy(i) : IsOutput(FramesBy(i)[j], i)
          [] OTHER -> FramesBy(i) = <<>>

(* both calls answered, one after a handler that raised and one for a tool
   that is no longer registered, each with the call_id of its item *)
ToolCallAnsweredWitness ==
    /\ Len(calls) = 2
    /\ calls[1].pc = "done" /\ calls[2].pc = "done"
    /\ {calls[1].outcome, calls[2].outcome} = {"raised", "not_registered"}
    /\ \A i \in {1, 2} : calls[i].call_id = CallIdOf(i)
    /\ calls[1].call_id # calls[2].call_id

(* C2: two overlapping disconnect() calls never close the transport stream
   twice. *)
DisconnectClosesOnce ==
    \A k \in StreamIds : Cardinality({d \in 1..MaxDisc : disc[d].k = k}) <= 1

(* C3: however watchdog fire, tool-requested end and disconnect() race,
   the session stops the watchdog once, clears the conversation once and
   releases the transport once. *)
TerminatesOnce ==
    /\ hist.stops <= 1
    /\ hist.clears <= 1
    /\ \A k \in StreamIds : closeCalls[k] <= 1
    /\ ws = 0 => hist.stops = 1 /\ hist.clears = 1 /\ closeCalls[1] = 1

(* C4: the watchdog never fires while now - last_activity < timeout. *)
FiresOnlyWhenQuiet == hist.fires > 0 => hist.fire_idle >= silence_timeout

(* C5: once the watchdog has fired, no reset, session.created, connect or
   expiry makes it active again or triggers a second termination. *)
FiredIsTerminal ==
    [][client.timeout_triggered =>
          /\ client'.timeout_triggered
          /\ ~client'.silence_detection_active
          /\ hist'.fires = hist.fires]_vars

(* C5, as the code has it: the timer thread's trigger sets the latch and
   turns the watchdog off, and then no reset and no expiry makes it active
   again or triggers again, until a session.created event or a connect()
   arms it anew. *)
FiredIsLatched ==
    [][/\ hist'.fires # hist.fires =>
            client'.timeout_triggered /\ ~client'.silence_detection_active
       /\ (client.timeout_triggered /\ hist'.starts = hist.starts
                                     /\ hist'.opened = hist.opened) =>
            /\ client'.timeout_triggered
            /\ ~client'.silence_detection_active
            /\ hist'.fires = hist.fires]_vars

(* fired once, and a message handled since *)
FiredIsLatchedWitness ==
    hist.fires = 1 /\ hist.late /\ client.timeout_triggered /\ hist.starts = 1

(* the watchdog is active and the timeout has passed since the last activity *)
QuietExpired ==
    /\ client.silence_detection_active
    /\ ~client.timeout_triggered
    /\ now - client.last_activity_time >= silence_timeout

(* activity after all, or a disconnect() that stopped the watchdog *)
NotQuiet ==
    \/ ~client.silence_detection_active /\ ~client.timeout_triggered
    \/ client.silence_detection_active
         /\ now - client.last_activity_time < silence_timeout

TimedOut(n) ==
    /\ emitted["conversation.timeout"] > n
    /\ conv = clear
    /\ ws = 0

(* C6: an active watchdog that sees no activity for the timeout leads to
   the conversation.timeout notification, a cleared conversation and a
   disconnected transport. *)
WatchdogTerminates ==
    \A n \in 0..MaxStarts :
        (QuietExpired /\ hist.fires = n) ~> (TimedOut(n) \/ NotQuiet)

WatchdogTerminatesWitness ==
    hist.fires = 1 /\ TimedOut(0) /\ hist.fire_idle >= silence_timeout

(* C7: an item's formatted text and formatted transcript are the deltas
   addressed to it, concatenated in the order they came, whatever came for
   other items in between (the transcript of an item that was not
   truncated). *)
ConcatenationOfDeltas ==
    \A id \in DOMAIN conv.item_lookup :
        /\ conv.item_lookup[id].formatted.text = hist.deltas[id].text
        /\ id \notin hist.disturbed =>
              conv.item_lookup[id].formatted.transcript = hist.deltas[id].transcript

ConcatenationOfDeltasWitness ==
    /\ {"a", "b"} \subseteq DOMAIN conv.item_lookup
    /\ conv.item_lookup["a"].formatted.text = "xy"
    /\ conv.item_lookup["b"].formatted.transcript = "yx"
    /\ "b" \notin hist.disturbed

(* C8: item.truncated with audio_end_ms = T leaves min(L, T * 16000 / 1000)
   bytes of the L the item held, and an empty transcript. *)
TruncatedLength ==
    IsItem(hist.trunc) =>
        /\ AudioBytes(conv.item_lookup[hist.trunc.item_id].formatted.audio)
             = Min(hist.trunc.held, (hist.trunc.audio_end_ms * 16000) \div 1000)
        /\ conv.item_lookup[hist.trunc.item_id].formatted.transcript = ""

(* the bytes of buf at the indices lo <= i < hi *)
BufferSlice(buf, lo, hi) ==
    [kind |-> "bytes",
     from |-> buf.from + Min(lo, buf.to - buf.from),
     to |-> buf.from + Max(Min(lo, buf.to - buf.from), Min(hi, buf.to - buf.from))]

(* C9: speech_stopped for a started segment, with a buffer that holds
   audio, sets the segment's audio to the buffer's bytes from index
   start_ms * 16000 / 1000 up to end_ms * 16000 / 1000. *)
SpeechSegment ==
    [][\A id \in DOMAIN conv.queued_speech_items :
          (/\ id \in DOMAIN conv'.queued_speech_items
           /\ conv'.queued_speech_items[id] # conv.queued_speech_items[id]
           /\ "audio_end_ms" \in DOMAIN conv'.queued_speech_items[id]
           /\ client.input_audio_buffer.to > client.input_audio_buffer.from)
          => /\ "audio" \in DOMAIN conv'.queued_speech_items[id]
             /\ conv'.queued_speech_items[id].audio =
                  BufferSlice(client.input_audio_buffer,
                      (conv'.queued_speech_items[id].audio_start_ms * 16000) \div 1000,
                      (conv'.queued_speech_items[id].audio_end_ms * 16000) \div 1000)]_vars

(* started at 100 ms, stopped at 400 ms: bytes 1600 up to 6400 *)
SpeechSegmentWitness ==
    /\ "u" \in DOMAIN conv.queued_speech_items
    /\ "audio" \in DOMAIN conv.queued_speech_items["u"]
    /\ conv.queued_speech_items["u"].audio_start_ms = 100
    /\ conv.queued_speech_items["u"].audio_end_ms = 400
    /\ conv.queued_speech_items["u"].audio = [kind |-> "bytes", from |-> 1600, to |-> 6400]

(* C10: add_tool of a registered name raises and leaves the registry as it
   was; add_tool of a name that is not registered, as after remove_tool,
   returns and registers the handler; remove_tool unregisters the name. *)
DuplicateToolRefused ==
    /\ hist.last.op = "add_tool" =>
          IF hist.last.name \in DOMAIN hist.before
          THEN ~hist.last.ok /\ client.tools = hist.before
          ELSE /\ hist.last.ok
               /\ DOMAIN client.tools = DOMAIN hist.before \cup {hist.last.name}
               /\ client.tools[hist.last.name].handler = hist.last.handler
               /\ \A n \in DOMAIN hist.before : client.tools[n] = hist.before[n]
    /\ hist.last.op = "remove_tool" /\ hist.last.ok =>
          hist.last.name \notin DOMAIN client.tools

(* "x" registered, a second add_tool refused, then removed and added again
   with the other handler *)
DuplicateToolRefusedWitness ==
    /\ Len(hist.ops) = 4
    /\ hist.ops[2] = [op |-> "add_tool", name |-> "x", ok |-> FALSE]
    /\ hist.ops[3] = [op |-> "remove_tool", name |-> "x", ok |-> TRUE]
    /\ hist.ops[4] = [op |-> "add_tool", name |-> "x", ok |-> TRUE]
    /\ client.tools["x"].handler = "raises"


(* C13: an item whose status is completed has no other status afterwards. *)
StatusMonotonic ==
    [][\A id \in DOMAIN conv.item_lookup :
          (conv.item_lookup[id].status = "completed" /\ id \in DOMAIN conv'.item_lookup)
          => conv'.item_lookup[id].status = "completed"]_vars

(* the event cannot be applied to the store: no processor for its type, or
   the item, response or speech segment it names is not there *)
Inapplicable(ev, cv) ==
    \/ ev.type \notin EventProcessors
    \/ /\ ev.type \in {"conversation.item.truncated", "conversation.item.deleted",
                       "response.content_part.added", "response.text.delta",
                       "response.audio_transcript.delta",
                       "response.function_call_arguments.delta"}
       /\ ev.item_id \notin DOMAIN cv.item_lookup
    \/ ev.type = "response.output_item.done" /\ ev.item.id \notin DOMAIN cv.item_lookup
    \/ /\ ev.type = "response.output_item.added"
       /\ ev.response_id \notin DOMAIN cv.response_lookup
    \/ /\ ev.type = "input_audio_buffer.speech_stopped"
       /\ ev.item_id \notin DOMAIN cv.queued_speech_items

(* C15: an event without a processor, or one that names an item, a
   response or a speech segment that is not there, raises and leaves the
   store as it was. *)
InapplicableRaises ==
    (hist.last.op = "process_event" /\ Inapplicable(hist.last.ev, hist.before))
    => hist.last.raised /\ conv = hist.before

(* a truncation of an item that is not there, refused by a store that holds
   another item *)
InapplicableRaisesWitness ==
    /\ hist.last.op = "process_event"
    /\ hist.last.ev.type = "conversation.item.truncated"
    /\ hist.last.ev.item_id = "a"
    /\ hist.last.raised
    /\ "a" \notin DOMAIN conv.item_lookup
    /\ "u" \in DOMAIN conv.item_lookup

(* C16: an audio delta for an item that is not in the store raises
   nothing, returns neither item nor delta, and leaves the store as it was. *)
AudioDeltaTolerated ==
    (/\ hist.last.op = "process_event"
     /\ hist.last.ev.type = "response.audio.delta"
     /\ hist.last.ev.item_id \notin DOMAIN hist.before.item_lookup)
    => /\ ~hist.last.raised
       /\ ~hist.last.item
       /\ ~hist.last.delta
       /\ conv = hist.before

AudioDeltaToleratedWitness ==
    /\ hist.last.op = "process_event"
    /\ hist.last.ev.type = "response.audio.delta"
    /\ hist.last.ev.item_id = "b"
    /\ ~hist.last.raised
    /\ conv.items = <<"a">>
    /\ conv = hist.before

(* C14: the store mutations of a frame are all applied before those of the
   next frame: while the status update of a response.output_item.done
   waits in its task, no other frame changes the store. *)
FramesInOrder ==
    [][(/\ \E i \in DOMAIN calls : calls[i].pc = "new"
        /\ Len(calls') >= Len(calls)
        /\ SubSeq(calls', 1, Len(calls)) = calls
        /\ disc' = disc)
       => conv' = conv]_vars

(* a call of the caller returned or raised in this step *)
Called(op) == hist'.done > hist.done /\ hist'.last.op = op

(* C11: connect() on a connected client raises and leaves the connection,
   the client and the store as they were. *)
ConnectRefused ==
    [][(Called("connect") /\ ws # 0)
       => /\ ~hist'.last.ok
          /\ ws' = ws
          /\ closeCalls' = closeCalls
          /\ recv' = recv
          /\ client' = client
          /\ conv' = conv
          /\ sent' = sent]_vars

(* connect() refused on a session that was created and holds an item *)
ConnectRefusedWitness ==
    /\ hist.last.op = "connect"
    /\ ~hist.last.ok
    /\ ws = 1
    /\ client.session_created
    /\ client.silence_detection_active
    /\ conv.items = <<"a">>

(* C12: when reset() or disconnect() has completed, the watchdog is
   inactive with no timer armed, the store is empty and the transport is
   not connected. *)
EndsClean ==
    [][(\/ Called("reset")
        \/ \E d \in 1..MaxDisc : disc[d].pc # "done" /\ disc'[d].pc = "done")
       => /\ ~client'.silence_detection_active
          /\ client'.silence_timer = 0
          /\ conv' = clear
          /\ ws' = 0]_vars

(* C17: a cancel_response with an id that raises because the item is not
   an assistant message or has no audio part has sent nothing. *)
CancelChecksFirst ==
    [][(/\ Called("cancel_response")
        /\ ~hist'.last.ok
        /\ IsOpen(World))
       => sent' = sent]_vars

(* the frames of the types the call sends that were sent in this step *)
SentNow == SubSeq(sent', Len(sent) + 1, Len(sent'))
TypesOf(frames) == [i \in DOMAIN frames |-> frames[i].type]

(* C18: create_response on an open stream, with no server-side detection
   configured and audio in the buffer, sends the commit, hands the buffer
   to the store and empties it, then sends the response request; with
   server-side detection it sends the response request only and leaves
   the buffer alone. *)
CreateResponseCommits ==
    [][(Called("create_response") /\ IsOpen(World))
       => IF client.turn_detection = "server_vad"
          THEN /\ TypesOf(SentNow) = <<"response.create">>
               /\ client'.input_audio_buffer = client.input_audio_buffer
               /\ hist'.last.ok
          ELSE BytesLen(client.input_audio_buffer) > 0
               => /\ TypesOf(SentNow) = <<"input_audio_buffer.commit", "response.create">>
                  /\ BytesLen(client'.input_audio_buffer) = 0
                  /\ conv'.queued_input_audio = client.input_audio_buffer
                  /\ hist'.last.ok]_vars

(* in the record of what send did, every transmission has the two local
   dispatches of its event right before it *)
DispatchedFirst(disp) ==
    \A j \in {i \in DOMAIN disp : disp[i].name = "ws.send"} :
        /\ j > 2
        /\ disp[j - 2] = [name |-> "client." \o disp[j].event.type,
                          event |-> disp[j].event]
        /\ disp[j - 1] = [name |-> "client.*", event |-> disp[j].event]

(* C19: every frame transmitted was dispatched as client.<type> and then
   as client.* right before, with the same event; a send while the
   transport is not connected raises, and has dispatched and transmitted
   nothing. *)
SentWasDispatched ==
    [][/\ DispatchedFirst(hist'.disp)
       /\ Len(sent') =
            Cardinality({i \in DOMAIN hist'.disp : hist'.disp[i].name = "ws.send"})
       /\ (Called("send") /\ ws = 0)
          => ~hist'.last.ok /\ hist'.disp = hist.disp /\ sent' = sent]_vars

(* two frames transmitted, the second by realtime.send, after three calls *)
SentWasDispatchedWitness ==
    /\ hist.last.op = "send"
    /\ hist.last.ok
    /\ Len(sent) = 2
    /\ sent[2].type = "input_audio_buffer.clear"
    /\ Len(hist.disp) = 6
    /\ hist.done = 3

(* the lifecycle notifications dispatched so far *)
Notifications == emitted["conversation.timeout"] + emitted["conversation.ended"]

(* C20: when the remote end has closed the stream, a lifecycle
   notification is dispatched to the observers (the stream closed early
   enough for the watchdog, if it is active, to time out within the time
   modelled). *)
RemoteCloseNotified ==
    \A n \in 0..MaxStarts :
        (remote # {} /\ now + silence_timeout <= MaxTime /\ Notifications = n)
        ~> (Notifications > n)

----------------------------------------------------------------------------
(* C21: when a tool handler has asked for the end of the call (END_CALL is
   set) while the session is established on a connected transport that
   nobody is closing, a conversation.ended notification is eventually
   dispatched, once.  It is the first of the effects of the termination:
   the watchdog is stopped, the store cleared and the transport closed by
   the same coroutine, after it. *)
EndCallEnds ==
    \A n \in 0..MaxConnects :
        (/\ END_CALL
         /\ client.session_created
         /\ ws # 0 /\ closeCalls[ws] = 0
         /\ emitted["conversation.ended"] = n)
        ~> (emitted["conversation.ended"] = n + 1)

(* the handlers of hs that are coroutine functions, by name *)
RECURSIVE CoroutineIds(_)
CoroutineIds(hs) ==
    IF hs = <<>> THEN <<>>
    ELSE IF iscoroutinefunction(Head(hs)) THEN <<Head(hs).id>> \o CoroutineIds(Tail(hs))
    ELSE CoroutineIds(Tail(hs))

PlainHandler(h) == ~iscoroutinefunction(h)

(* C22: a dispatch under a name calls the handlers registered under that
   name since the last clear, each once per registration: the plain
   functions inline in the order of registration, the coroutine functions
   as tasks; it calls nothing registered under another name only, and
   nothing after clear_event_handlers(). *)
DispatchInvokesRegistered ==
    hist.last_dispatch.name # "" =>
        /\ hist.last_dispatch.inline
             = SelectSeq(hist.regs[hist.last_dispatch.name], PlainHandler)
        /\ hist.last_dispatch.tasks = CoroutineIds(hist.regs[hist.last_dispatch.name])

DispatchInvokesRegisteredWitness ==
    /\ hist.last_dispatch.name = "a"
    /\ Len(hist.last_dispatch.inline) = 2
    /\ hist.last_dispatch.inline[1].id = "f"
    /\ hist.last_dispatch.inline[2].id = "f"
    /\ hist.last_dispatch.tasks = <<"co">>
    /\ Len(event_handlers["b"]) > 0
    /\ Len(hist.seen) = 1

(* the dispatches that can resolve the i-th wait_for_next: those under its
   name after the call and while its handler is registered *)
Resolving(i) ==
    {j \in DOMAIN hist.seen :
        /\ j > hist.wait_info[i].at
        /\ j <= hist.wait_info[i].until
        /\ hist.seen[j].name = waits[i].name}

First(S) == CHOOSE j \in S : \A k \in S : j <= k

(* C23: the future of a wait_for_next(name) has no result until an event
   is dispatched under the name after the call, then the event of the
   first such dispatch, for good. *)
WaitResolvedByFirst ==
    \A i \in DOMAIN waits :
        waits[i].future = IF Resolving(i) = {} THEN 0
                          ELSE hist.seen[First(Resolving(i))].event

WaitResolvedByFirstWitness ==
    /\ Len(waits) >= 1
    /\ hist.wait_info[1].at = 1
    /\ hist.seen[1].name = waits[1].name
    /\ Len(hist.seen) = 3
    /\ Resolving(1) = {2, 3}
    /\ waits[1].future = 2

(* C24: a step of the Timer thread that fires (the deadline has expired
   and the quiet time has passed) changes the watchdog's fields and posts
   the disconnect to the loop; it leaves the session's state, the store
   and the transport as they are. *)
TimerContextConfined ==
    [][hist'.fires # hist.fires =>
          /\ conv' = conv
          /\ ws' = ws
          /\ closeCalls' = closeCalls
          /\ client'.session_created = client.session_created
          /\ client'.end_call_check_task = client.end_call_check_task]_vars

(* a deadline is armed for the time that remains of the quiet period *)
ArmedForRemainder(c) ==
    \E j \in TimerIds :
        /\ c.timers[j].st = "armed"
        /\ c.timers[j].deadline = c.last_activity_time + silence_timeout
        /\ c.silence_timer = j

(* C25: when the callback of an expired deadline finds the watchdog
   active and less than the timeout passed since the last activity, it
   does not fire, and a deadline is armed for the time that remains. *)
RemainderArmed ==
    [][hist'.early # hist.early =>
          /\ hist'.fires = hist.fires
          /\ sd' = sd
          /\ client'.silence_detection_active
          /\ \A i \in TimerIds : client'.timers[i].st # "running"
          /\ ArmedForRemainder(client')]_vars

RemainderArmedWitness ==
    /\ hist.early = 1
    /\ hist.fires = 0
    /\ now = silence_timeout
    /\ client.last_activity_time = silence_timeout
    /\ ArmedForRemainder(client)

ArmedTimers(c) == {i \in TimerIds : c.timers[i].st = "armed"}

(* C26: at any time at most one deadline of the watchdog is armed. *)
OneDeadlineArmed == Cardinality(ArmedTimers(client)) <= 1

(* C27: once _stop_silence_detection has returned, the Timer thread
   produces no termination trigger until the watchdog is started again:
   a step that fires finds the watchdog active. *)
NoTriggerAfterStop ==
    [][hist'.fires # hist.fires => client.silence_detection_active]_vars

(* C28: a tool handler is invoked only for an item that the
   response.output_item.done event left completed. *)
HandlerOnlyWhenCompleted ==
    \A i \in DOMAIN calls :
        calls[i].handler # "" => calls[i].ev.item.status = "completed"

(* the step registers item id *)
Creates(id) == id \notin DOMAIN conv.item_lookup /\ id \in DOMAIN conv'.item_lookup

(* C29: the item.created that registers an item for which a speech segment
   is queued, with or without audio, removes the queue entry, and the
   audio of a segment that has some is the audio of the item. *)
SegmentConsumedAtCreation ==
    [][\A id \in DOMAIN conv.queued_speech_items :
          Creates(id) =>
             /\ id \notin DOMAIN conv'.queued_speech_items
             /\ "audio" \in DOMAIN conv.queued_speech_items[id]
                  => conv'.item_lookup[id].formatted.audio =
                         conv.queued_speech_items[id].audio]_vars

(* the formatted transcript of a transcript: a single space for an empty one *)
Placeholder(transcript) == IF transcript = "" THEN " " ELSE transcript

CompletedEvent == "conversation.item.input_audio_transcription.completed"

(* the store after the two events in one order and in the other *)
CreatedThenCompleted(cv, id, transcript) ==
    process_event(process_event(cv, ItemCreated(UserMessage(id)), EmptyBytes).cv,
                  TranscriptionCompleted(id, transcript), EmptyBytes).cv

CompletedThenCreated(cv, id, transcript) ==
    process_event(process_event(cv, TranscriptionCompleted(id, transcript), EmptyBytes).cv,
                  ItemCreated(UserMessage(id)), EmptyBytes).cv

(* C30: the completed transcription of an item and the item.created that
   registers it give the same formatted transcript in either order, the
   transcript or a single space for an empty one; a transcript that is
   queued is merged by the item.created and leaves the queue. *)
TranscriptEitherOrder ==
    /\ \A id \in {"u", "v"} : \A transcript \in {"", "hi"} :
          id \notin DOMAIN conv.item_lookup =>
             /\ CreatedThenCompleted(conv, id, transcript).item_lookup[id].formatted.transcript
                   = Placeholder(transcript)
             /\ CompletedThenCreated(conv, id, transcript).item_lookup[id].formatted.transcript
                   = Placeholder(transcript)
             /\ id \notin DOMAIN CompletedThenCreated(conv, id, transcript).queued_transcript_items
    /\ (hist.last.op = "process_event" /\ hist.last.ev.type = CompletedEvent)
          => IF hist.last.ev.item_id \in DOMAIN hist.before.item_lookup
             THEN conv.item_lookup[hist.last.ev.item_id].formatted.transcript
                      = Placeholder(hist.last.ev.transcript)
             ELSE conv.queued_transcript_items[hist.last.ev.item_id].transcript
                      = Placeholder(hist.last.ev.transcript)
    /\ (/\ hist.last.op = "process_event"
        /\ hist.last.ev.type = "conversation.item.created"
        /\ hist.last.ev.item.id \notin DOMAIN hist.before.item_lookup
        /\ hist.last.ev.item.id \in DOMAIN hist.before.queued_transcript_items)
          => /\ conv.item_lookup[hist.last.ev.item.id].formatted.transcript
                   = hist.before.queued_transcript_items[hist.last.ev.item.id].transcript
             /\ hist.last.ev.item.id \notin DOMAIN conv.queued_transcript_items

(* an empty transcript was queued for u, the item.created merged it: the
   item holds a single space, the queue is empty; v was created first and
   holds its transcript *)
TranscriptEitherOrderWitness ==
    /\ hist.last.op = "process_event"
    /\ hist.last.ev.type = "conversation.item.created"
    /\ hist.last.ev.item.id = "u"
    /\ "u" \notin DOMAIN hist.before.item_lookup
    /\ hist.before.queued_transcript_items = Put(EmptyDict, "u", [transcript |-> " "])
    /\ conv.item_lookup["u"].formatted.transcript = " "
    /\ conv.queued_transcript_items = EmptyDict
    /\ "v" \in DOMAIN conv.item_lookup
    /\ conv.item_lookup["v"].formatted.transcript = "yo"

(* C31: the ordered list and the index of the store hold the same items,
   and no id is twice in the list. *)
ListMatchesIndex ==
    /\ {conv.items[i] : i \in DOMAIN conv.items} = DOMAIN conv.item_lookup
    /\ \A i, j \in DOMAIN conv.items : conv.items[i] = conv.items[j] => i = j
    /\ \A id \in DOMAIN conv.item_lookup : conv.item_lookup[id].id = id

(* a was deleted while u stays; before that a second item.created for u
   was processed *)
ListMatchesIndexWitness ==
    /\ hist.last.op = "process_event"
    /\ hist.last.ev.type = "conversation.item.deleted"
    /\ ~hist.last.raised
    /\ hist.before.items = <<"u", "a">>
    /\ conv.items = <<"u">>
    /\ DOMAIN conv.item_lookup = {"u"}

(* the last step was an item.created that registered an item *)
LastCreated ==
    /\ hist.last.op = "process_event"
    /\ hist.last.ev.type = "conversation.item.created"
    /\ ~hist.last.raised
    /\ hist.last.ev.item.id \notin DOMAIN hist.before.item_lookup

(* what item.created makes of item it, found with the pending audio q *)
StatusByKind(it, ev, q, q1) ==
    CASE it.type = "message" /\ it.role = "user" ->
            /\ it.status = "completed"
            /\ IF Truthy(q)
               THEN it.formatted.audio = q /\ q1 = NoItem
               ELSE it.formatted.audio = EmptyList /\ q1 = q
      [] it.type = "message" /\ it.role # "user" ->
            /\ it.status = "in_progress"
            /\ it.formatted.audio = EmptyList /\ q1 = q
      [] it.type = "function_call" ->
            /\ it.status = "in_progress"
            /\ it.formatted.tool = [type |-> "function", name |-> ev.item.name,
                                    call_id |-> ev.item.call_id, arguments |-> ""]
            /\ q1 = q
      [] it.type = "function_call_output" ->
            /\ it.status = "completed"
            /\ it.formatted.output = ev.item.output
            /\ q1 = q

(* C32: item.created gives the item the status of its kind, whatever
   status the event carries, a function call its tool descriptor with
   empty arguments; pending input audio goes to a user message and is
   cleared by that, so to no second one. *)
CreatedStatusByKind ==
    LastCreated =>
        StatusByKind(conv.item_lookup[hist.last.ev.item.id], hist.last.ev,
                     hist.before.queued_input_audio, conv.queued_input_audio)

(* audio was queued once; u, created with status in_progress, is completed
   and holds it; v, created after, holds none *)
CreatedStatusByKindWitness ==
    /\ LastCreated
    /\ hist.last.ev.item.id = "v"
    /\ hist.last.ev.item.status = "in_progress"
    /\ conv.items = <<"fc1", "u", "v">>
    /\ conv.item_lookup["fc1"].status = "in_progress"
    /\ conv.item_lookup["u"].formatted.audio = [kind |-> "bytes", from |-> 0, to |-> 4]
    /\ conv.item_lookup["v"].formatted.audio = EmptyList
    /\ conv.item_lookup["v"].status = "completed"
    /\ conv.queued_input_audio = NoItem

(* C33: no two frames sent on a transport carry the same event id (stated
   for the first transport of the client). *)
FreshEventIds ==
    hist.opened <= 1 =>
        \A i, j \in DOMAIN sent : sent[i].event_id = sent[j].event_id => i = j

(* the streams that were opened and that neither end has closed *)
OpenStreams ==
    {k \in StreamIds : k <= hist.opened /\ closeCalls[k] = 0 /\ k \notin remote}

(* C34: at any time at most one stream is open and at most one inbound
   loop is running. *)
OneStreamOneLoop ==
    /\ Cardinality(OpenStreams) <= 1
    /\ Cardinality(recv) <= 1

(* C35: the inbound loop of a stream stops only when the stream is closed:
   a frame whose handler raises leaves the loop running. *)
LoopOutlivesErrors ==
    [][\A k \in recv :
          (closeCalls[k] = 0 /\ closeCalls'[k] = 0 /\ k \notin remote') => k \in recv']_vars

(* the tool calls of this session whose handler asked for the end *)
OwnEndRequests ==
    {i \in DOMAIN calls :
        calls[i].handler = "end_call_handler" /\ calls[i].outcome = "returned"}

(* C36: the session is ended by the watcher only on an end request of one of
   its own tool calls: it has not been ended more often than its own
   handlers asked for it. *)
EndedOnOwnRequest == emitted["conversation.ended"] <= Cardinality(OwnEndRequests)

(* the end requests whose handler finished while the client was connected
   to an open stream: the handler's result was transmitted in the same step
   (_call_tool sends it as soon as the handler returns) *)
TimelyEndRequests ==
    {i \in OwnEndRequests : \E n \in DOMAIN sent : sent[n].by = i /\ IsOutput(sent[n], i)}

(* C37: an end request whose handler finished after the session was
   disconnected ends no session: the watcher has ended sessions no more
   often than handlers asked for it while connected. *)
LateRequestNotCarried == emitted["conversation.ended"] <= Cardinality(TimelyEndRequests)

(* C38: whenever the session is established on an open transport, its
   watcher is polling the end request. *)
WatcherWhileCreated ==
    (client.session_created /\ client.loop /\ ws # 0 /\ closeCalls[ws] = 0)
        => watcher.pc = "polling"

(* the tool list of a session.update for the registry: every registered
   tool, tagged with type function *)
ToolList(tools) == {[name |-> n, type |-> "function"] : n \in DOMAIN tools}

(* C39: while connected, the tool list of the last session.update that was
   sent is the one of the current registry. *)
LastUpdateHasRegistry ==
    (ws # 0 /\ sent # <<>> /\ sent[Len(sent)].type = "session.update")
        => sent[Len(sent)].tools = ToolList(client.tools)

(* C40: a wait_for_session_created() that is polling ends once the session
   is created, and ends when the client is no longer connected. *)
WaitTerminates ==
    (client.waiting = "polling" /\ (client.session_created \/ ws = 0))
        ~> (client.waiting # "polling")

====
